---- MODULE Spec2Model ----
(***************************************************************************)
(* Accumulation-zone detector of bistScanner                               *)
(* (src/scanner/accumulation_detector.py).                                 *)
(*                                                                         *)
(* Prices and thresholds are integers; every quotient the code computes in *)
(* floating point (percentages, RSI, averages, sub-scores) is an exact     *)
(* rational [n, d] in lowest terms with d > 0.  NaN is a value of its own. *)
(* Rounded fields keep their scale: score and avg_rsi are in tenths,       *)
(* total_diff_percent in hundredths.                                       *)
(* Python indices are 0-based: iloc(df, i) is df.iloc[i].                  *)
(***************************************************************************)
EXTENDS Integers, Sequences, FiniteSets, TLC

VARIABLES
    cfg,        \* the detector's attributes (AccumulationDetector.__init__)
    candles,    \* the caller's df: None, or a DataFrame of rows [Date, Open, Close]
    pc,         \* position in detect_zones: "call", "scan", "done"
    df,         \* detect_zones' local df after dropna / reset_index
    i,          \* loop index of the scan
    in_zone,    \* local in_zone
    zone_data,  \* local zone_data (None when no candidate is pending)
    zone,       \* local zone: what the last _finalize_zone call returned
    frame,      \* locals of the last _finalize_zone call (unbound if it returned at the gate)
    zones,      \* local zones, the list that is returned
    probe,      \* candidates handed to _finalize_zone directly (scorer runs)
    scored,     \* what _finalize_zone made of each of them so far
    calls,      \* several detect_zones calls on one detector: their arguments and locals
    store,      \* rows of the zones table
    history,    \* rows of the score_history table
    next_id,    \* the next primary key of the zones table
    today,      \* date.today()
    scan,       \* locals of ScanScheduler._execute_scan
    market,     \* the daily candles the data provider has for each ticker
    scan_logs,  \* rows of the scan_logs table
    engine      \* db.engine: the database SQLALCHEMY_DATABASE_URI names

\* the state of the scheduled scans and of the database
dbvars == <<store, history, next_id, today, scan, market, scan_logs, engine>>

vars == <<cfg, candles, pc, df, i, in_zone, zone_data, zone, frame, zones,
          probe, scored, calls, dbvars>>

----------------------------------------------------------------------------
(* Bounds of the model *)

\* the last day the scheduler runs
MaxDay == 5
\* scheduled scans that run
MaxScans == 3
\* days of history the data provider returns (DATA_PERIOD, scaled down)
DataPeriod == 4

MaxLen == 5
MaxRange == 6
\* the longest candidate handed to the scorer on its own
MaxCandles == 4
\* how many times the environment fails a scan: an unreadable ticker file,
\* an exception
MaxFaults == 2

----------------------------------------------------------------------------
(* Rational arithmetic standing for the code's float arithmetic *)

Abs(x) == IF x < 0 THEN -x ELSE x

RECURSIVE Gcd(_, _)
Gcd(a, b) == IF b = 0 THEN a ELSE Gcd(b, a % b)

Frac(n, d) ==
    LET s == IF d < 0 THEN -1 ELSE 1
        g == Gcd(Abs(n), Abs(d))
    IN  [n |-> (s * n) \div g, d |-> (s * d) \div g]

Num(x) == Frac(x, 1)

RAdd(a, b) == Frac(a.n * b.d + b.n * a.d, a.d * b.d)
RSub(a, b) == Frac(a.n * b.d - b.n * a.d, a.d * b.d)
RMul(a, b) ==
    LET g1 == Gcd(Abs(a.n), b.d)
        g2 == Gcd(Abs(b.n), a.d)
    IN  Frac((a.n \div g1) * (b.n \div g2), (a.d \div g2) * (b.d \div g1))
RDiv(a, b) == RMul(a, Frac(b.d, b.n))
RLe(a, b) == a.n * b.d <= b.n * a.d
RLt(a, b) == a.n * b.d < b.n * a.d
RMax(a, b) == IF RLt(a, b) THEN b ELSE a
RMin(a, b) == IF RLt(b, a) THEN b ELSE a

RECURSIVE RSum(_)
RSum(s) == IF s = <<>> THEN Num(0) ELSE RAdd(Head(s), RSum(Tail(s)))

\* round(x, k) with scale = 10^k, as an integer number of 1/scale units
\* (ties go to the even neighbour)
RoundTo(x, scale) ==
    LET n == 2 * x.n * scale + x.d
        q == n \div (2 * x.d)
    IN  IF n % (2 * x.d) = 0 /\ q % 2 = 1 THEN q - 1 ELSE q

NaN == [nan |-> TRUE]
IsNaN(x) == x = NaN

None == [tag |-> "None"]
Unbound == [tag |-> "unbound"]

iloc(s, k) == s[k + 1]

----------------------------------------------------------------------------
(* calculate_rsi *)

\* delta = series.diff(): NaN at the first row, which
\* gain = (delta.where(delta > 0, 0)).fillna(0) turns into 0 (NaN > 0 is false)
gain(series) ==
    [p \in 1..Len(series) |->
        IF p = 1 THEN 0
        ELSE IF series[p] - series[p - 1] > 0 THEN series[p] - series[p - 1] ELSE 0]

\* loss = (-delta.where(delta < 0, 0)).fillna(0)
loss(series) ==
    [p \in 1..Len(series) |->
        IF p = 1 THEN 0
        ELSE IF series[p] - series[p - 1] < 0 THEN -(series[p] - series[p - 1]) ELSE 0]

RECURSIVE WindowSum(_, _, _)
WindowSum(vals, from, to) ==
    IF from > to THEN 0 ELSE vals[from] + WindowSum(vals, from + 1, to)

\* rolling(window=period, min_periods=period).mean() at row p: NaN until the
\* window holds `period` non-NaN observations (gain and loss hold no NaN)
rolling_mean(vals, period, p) ==
    IF p < period THEN NaN
    ELSE Frac(WindowSum(vals, p - period + 1, p), period)

\* a division by a zero average loss taken as undefined
rsi_at_no_saturation(series, period, p) ==
    LET avg_gain == rolling_mean(gain(series), period, p)
        avg_loss == rolling_mean(loss(series), period, p)
    IN  IF IsNaN(avg_gain) \/ IsNaN(avg_loss) THEN NaN
        ELSE IF avg_loss.n = 0 THEN NaN
             ELSE RSub(Num(100),
                       RDiv(Num(100), RAdd(Num(1), RDiv(avg_gain, avg_loss))))

\* rs = avg_gain / avg_loss ; rsi = 100 - (100 / (1 + rs))
\* 0/0 is NaN, x/0 is inf and 100/(1 + inf) is 0
rsi_at(series, period, p) ==
    LET avg_gain == rolling_mean(gain(series), period, p)
        avg_loss == rolling_mean(loss(series), period, p)
    IN  IF IsNaN(avg_gain) \/ IsNaN(avg_loss) THEN NaN
        ELSE IF avg_loss.n = 0
             THEN IF avg_gain.n = 0 THEN NaN ELSE Num(100)
             ELSE RSub(Num(100),
                       RDiv(Num(100), RAdd(Num(1), RDiv(avg_gain, avg_loss))))

calculate_rsi(series, period) ==
    [p \in 1..Len(series) |-> rsi_at(series, period, p)]

----------------------------------------------------------------------------
(* detect_zones, lines 107-129: length checks, RSI, bodies, dropna *)

Min2(a, b) == IF a < b THEN a ELSE b
Max2(a, b) == IF a > b THEN a ELSE b


\* df with the columns RSI, BodyLow, BodyHigh added (lines 115-119)
with_columns(rows, period) ==
    LET closes == [p \in 1..Len(rows) |-> rows[p].Close]
        rsi == calculate_rsi(closes, period)
    IN  [p \in 1..Len(rows) |->
            [Date |-> rows[p].Date, Open |-> rows[p].Open, Close |-> rows[p].Close,
             RSI |-> rsi[p],
             BodyLow |-> Min2(rows[p].Open, rows[p].Close),
             BodyHigh |-> Max2(rows[p].Open, rows[p].Close)]]

\* df.dropna() then reset_index(drop=True): the price columns are finite,
\* so a row is dropped exactly when its RSI is NaN
RECURSIVE dropna(_)
dropna(rows) ==
    IF rows = <<>> THEN <<>>
    ELSE IF IsNaN(Head(rows).RSI) THEN dropna(Tail(rows))
         ELSE <<Head(rows)>> \o dropna(Tail(rows))

\* line 107: `if df is None or len(df) < self.min_candle_count + 1`
insufficient(frame_in) ==
    IF frame_in = None THEN TRUE
    ELSE Len(frame_in.rows) < cfg.min_candle_count + 1

RECURSIVE drop_leading(_)
drop_leading(rows) ==
    IF rows = <<>> THEN <<>>
    ELSE IF IsNaN(Head(rows).RSI) THEN drop_leading(Tail(rows))
         ELSE rows

\* the leading rows without RSI dropped, the later ones kept
trimmed_leading_only(frame_in) ==
    drop_leading(with_columns(frame_in.rows, cfg.rsi_length))

\* lines 112-122 and 129
trimmed(frame_in) == dropna(with_columns(frame_in.rows, cfg.rsi_length))

----------------------------------------------------------------------------
(* detect_zones, lines 137-151: the filters of one candle *)

\* body_diff_percent = (body_diff / current['Open']) * 100 if Open != 0 else 0
body_diff_percent(current) ==
    IF current.Open # 0
    THEN RMul(Frac(Abs(current.BodyHigh - current.BodyLow), current.Open), Num(100))
    ELSE Num(0)

\* link_diff_percent = (link_diff / prev['Close']) * 100 if prev Close != 0 else 0
link_diff_percent(current, prev) ==
    IF prev.Close # 0
    THEN RMul(Frac(Abs(current.Close - prev.Close), prev.Close), Num(100))
    ELSE Num(0)

rsi_ok(current) == RLe(current.RSI, Num(cfg.rsi_max_limit))
body_ok(current) == RLe(body_diff_percent(current), Num(cfg.max_body_diff))
link_ok(current, prev) == RLe(link_diff_percent(current, prev), Num(cfg.max_link_diff))

\* line 155 and line 191: the start condition
start_ok(current) == body_ok(current) /\ rsi_ok(current)

\* the seed that takes the candle before k as its start
seed_zone_from_previous(k, current) ==
    [start_idx |-> k - 1,
     candles |-> <<k>>,
     highest_body |-> current.BodyHigh,
     lowest_body |-> current.BodyLow,
     rsi_values |-> <<current.RSI>>]

\* the seed with the body extremes swapped
seed_zone_swapped(k, current) ==
    [start_idx |-> k,
     candles |-> <<k>>,
     highest_body |-> current.BodyLow,
     lowest_body |-> current.BodyHigh,
     rsi_values |-> <<current.RSI>>]

\* lines 157-163 and 194-200: a candidate seeded with candle k alone
seed_zone(k, current) ==
    [start_idx |-> k,
     candles |-> <<k>>,
     highest_body |-> current.BodyHigh,
     lowest_body |-> current.BodyLow,
     rsi_values |-> <<current.RSI>>]

\* lines 168-172
temp_highest(zd, current) == Max2(zd.highest_body, current.BodyHigh)
temp_lowest(zd, current) == Min2(zd.lowest_body, current.BodyLow)
temp_total_diff_percent(zd, current) ==
    IF temp_lowest(zd, current) # 0
    THEN RMul(Frac(temp_highest(zd, current) - temp_lowest(zd, current),
                   temp_lowest(zd, current)), Num(100))
    ELSE Num(0)

\* the extension test without the cumulative range
zone_ok_no_range(zd, current, prev) ==
    /\ body_ok(current)
    /\ link_ok(current, prev)
    /\ rsi_ok(current)

\* lines 174-175
zone_ok(zd, current, prev) ==
    /\ body_ok(current)
    /\ link_ok(current, prev)
    /\ rsi_ok(current)
    /\ RLe(temp_total_diff_percent(zd, current), Num(cfg.max_total_zone_diff))

\* the extension that records the candle and not its momentum
extend_zone_without_rsi(zd, k, current) ==
    [zd EXCEPT !.candles = Append(@, k),
               !.highest_body = temp_highest(zd, current),
               !.lowest_body = temp_lowest(zd, current)]

\* the extension that appends the candle and leaves the boundary as it was
extend_zone_keeps_boundary(zd, k, current) ==
    [zd EXCEPT !.candles = Append(@, k),
               !.rsi_values = Append(@, current.RSI)]

\* lines 179-182
extend_zone(zd, k, current) ==
    [zd EXCEPT !.candles = Append(@, k),
               !.highest_body = temp_highest(zd, current),
               !.lowest_body = temp_lowest(zd, current),
               !.rsi_values = Append(@, current.RSI)]

----------------------------------------------------------------------------
(* _finalize_zone *)

ScoreCap == Frac(3333, 100)

\* the upper clamp alone
clamp_score_upper_only(x) == RMin(ScoreCap, x)

\* max(0, min(33.33, x))
clamp_score(x) == RMax(Num(0), RMin(ScoreCap, x))

\* the gate off by one
too_few_candles_off_by_one(candle_count) == candle_count < cfg.min_candle_count - 1

\* the gate rejecting the boundary too
too_few_candles_inclusive(candle_count) == candle_count <= cfg.min_candle_count

\* lines 229-233: the minimum candle count gate
too_few_candles(candle_count) == candle_count < cfg.min_candle_count

\* lines 236-237
total_diff_percent(zd) ==
    IF zd.lowest_body # 0
    THEN RMul(Frac(zd.highest_body - zd.lowest_body, zd.lowest_body), Num(100))
    ELSE Num(0)

\* line 240
avg_rsi(zd) == RDiv(RSum(zd.rsi_values), Num(Len(zd.rsi_values)))

\* the numerator measured from the floor: wider zones score higher
compression_score_reversed(tdp) ==
    clamp_score(RMul(ScoreCap,
        RDiv(RSub(tdp, Num(cfg.score_diff_min)),
             Num(cfg.max_total_zone_diff - cfg.score_diff_min))))

\* lines 246-250
compression_score(tdp) ==
    clamp_score(RMul(ScoreCap,
        RDiv(RSub(Num(cfg.max_total_zone_diff), tdp),
             Num(cfg.max_total_zone_diff - cfg.score_diff_min))))

\* lines 254-258
rsi_score(avg) ==
    clamp_score(RMul(ScoreCap,
        RDiv(RSub(Num(cfg.score_rsi_max), avg),
             Num(cfg.score_rsi_max - cfg.score_rsi_min))))

\* the duration term without its upper clamp
duration_score_uncapped(candle_count) ==
    RMax(Num(0), RMul(ScoreCap,
        Frac(candle_count - cfg.min_candle_count,
             cfg.score_candle_max - cfg.min_candle_count)))

\* lines 262-266
duration_score(candle_count) ==
    clamp_score(RMul(ScoreCap,
        Frac(candle_count - cfg.min_candle_count,
             cfg.score_candle_max - cfg.min_candle_count)))

\* lines 262-265: the duration term divides two Python ints, so a zero
\* denominator raises ZeroDivisionError once the candidate passed the gate
finalize_raises(zd) ==
    /\ ~too_few_candles(Len(zd.candles))
    /\ cfg.score_candle_max - cfg.min_candle_count = 0

\* line 269
total_score(zd) ==
    RAdd(RAdd(compression_score(total_diff_percent(zd)), rsi_score(avg_rsi(zd))),
         duration_score(Len(zd.candles)))

\* the locals of a call that got past the gate
finalize_frame(zd) ==
    [candle_count |-> Len(zd.candles),
     total_diff_percent |-> total_diff_percent(zd),
     avg_rsi |-> avg_rsi(zd),
     compression_score |-> compression_score(total_diff_percent(zd)),
     rsi_score |-> rsi_score(avg_rsi(zd)),
     duration_score |-> duration_score(Len(zd.candles)),
     total_score |-> total_score(zd)]

Ticker == "TICKER"

\* the value _finalize_zone returns: None, or the AccumulationZone
finalize_zone(zd, dfx, status) ==
    IF too_few_candles(Len(zd.candles)) THEN None
    ELSE [tag |-> "zone",
          ticker |-> Ticker,
          start_date |-> iloc(dfx, zd.start_idx).Date,
          end_date |-> iloc(dfx, zd.candles[Len(zd.candles)]).Date,
          candle_count |-> Len(zd.candles),
          score |-> RoundTo(total_score(zd), 10),
          total_diff_percent |-> RoundTo(total_diff_percent(zd), 100),
          avg_rsi |-> RoundTo(avg_rsi(zd), 10),
          highest_body |-> zd.highest_body,
          lowest_body |-> zd.lowest_body,
          status |-> status]

finalize_locals(zd) ==
    IF too_few_candles(Len(zd.candles)) THEN Unbound ELSE finalize_frame(zd)

\* the zone inserted at the front
append_zone_front(zs, z) == <<z>> \o zs

\* lines 187 and 210: zones.append(zone)
append_zone(zs, z) == Append(zs, z)

\* the score threshold forgotten
keep_zone_any_score(z) == z # None

\* lines 186 and 209: `if zone and zone.score >= self.min_score`
keep_zone(z) == z # None /\ z.score >= 10 * cfg.min_score

----------------------------------------------------------------------------
(* Inputs *)

\* scanner/config.py ScannerConfig.to_dict, with the short RSI period of the
\* worked scenario
WorkedConfig ==
    [max_link_diff |-> 3, max_body_diff |-> 4, max_total_zone_diff |-> 6,
     min_candle_count |-> 4, rsi_length |-> 2, rsi_max_limit |-> 100,
     score_diff_min |-> 2, score_rsi_min |-> 30, score_rsi_max |-> 70,
     score_candle_max |-> 20, min_score |-> 30]

\* configurations small enough for zones to form within MaxLen candles
Configs ==
    { [WorkedConfig EXCEPT !.min_candle_count = 2, !.score_candle_max = 4],
      [WorkedConfig EXCEPT !.min_candle_count = 2, !.score_candle_max = 4,
                           !.min_score = 50, !.rsi_max_limit = 60],
      [WorkedConfig EXCEPT !.min_candle_count = 1, !.score_candle_max = 3,
                           !.rsi_length = 1, !.max_total_zone_diff = 3,
                           !.score_diff_min = 1, !.min_score = 40] }

\* <<Open, Close>> of the candles the inputs are built from
CandleKinds == { <<100, 101>>, <<101, 100>>, <<100, 105>>, <<107, 103>> }

\* a DataFrame whose Date column is strictly increasing
DataFrame(kinds) ==
    [tag |-> "DataFrame",
     rows |-> [p \in 1..Len(kinds) |->
                 [Date |-> p, Open |-> kinds[p][1], Close |-> kinds[p][2]]]]

CandleInputs ==
    {None} \cup
    { DataFrame(ks) : ks \in UNION { [1..n -> CandleKinds] : n \in 0..MaxLen } }

WorkedCandles ==
    DataFrame(<< <<100, 101>>, <<101, 100>>, <<100, 101>>, <<101, 100>>,
            <<100, 101>>, <<101, 100>>, <<100, 101>>, <<101, 100>> >>)

\* three candles, fewer than min_candle_count + 1 of WorkedConfig
ShortCandles == DataFrame(<< <<100, 101>>, <<101, 100>>, <<100, 101>> >>)

\* a slow rise: every candle passes the per-candle filters of WorkedConfig
\* while the range of the candidate grows past max_total_zone_diff
RisingCandles ==
    DataFrame(<< <<100, 101>>, <<101, 100>>, <<100, 102>>, <<102, 103>>,
                 <<103, 104>>, <<104, 105>>, <<105, 106>>, <<106, 107>> >>)

----------------------------------------------------------------------------
(* The state machine of one detect_zones call *)

\* no other call is in progress on the detector
NoCalls == calls = <<>>

\* nothing is persisted and no scheduled scan runs
NoScan ==
    /\ store = {}
    /\ history = {}
    /\ next_id = 1
    /\ today = 0
    /\ scan = None
    /\ market = <<>>
    /\ scan_logs = <<>>
    /\ engine = None


Init ==
    /\ \/ cfg \in Configs /\ candles \in CandleInputs
       \/ cfg = WorkedConfig /\ candles \in {WorkedCandles, ShortCandles, RisingCandles}
    /\ pc = "call"
    /\ df = <<>>
    /\ i = 0
    /\ in_zone = FALSE
    /\ zone_data = None
    /\ zone = Unbound
    /\ frame = Unbound
    /\ zones = <<>>
    /\ probe = <<>>
    /\ scored = <<>>
    /\ NoCalls /\ NoScan

\* lines 107-109
ReturnInsufficient ==
    /\ pc = "call"
    /\ insufficient(candles)
    /\ pc' = "done"
    /\ UNCHANGED <<calls, dbvars, probe, scored, cfg, candles, df, i, in_zone, zone_data, zone, frame, zones>>

\* lines 112-126
ReturnInsufficientAfterRSI ==
    /\ pc = "call"
    /\ ~insufficient(candles)
    /\ Len(trimmed(candles)) < cfg.min_candle_count + 1
    /\ pc' = "done"
    /\ df' = trimmed(candles)
    /\ UNCHANGED <<calls, dbvars, probe, scored, cfg, candles, i, in_zone, zone_data, zone, frame, zones>>

\* the scan begun at index 0
BeginScan_from_zero ==
    /\ pc = "call"
    /\ ~insufficient(candles)
    /\ Len(trimmed(candles)) >= cfg.min_candle_count + 1
    /\ df' = trimmed(candles)
    /\ zones' = <<>>
    /\ in_zone' = FALSE
    /\ zone_data' = None
    /\ i' = 0
    /\ pc' = "scan"
    /\ UNCHANGED <<calls, dbvars, probe, scored, cfg, candles, zone, frame>>

\* the scan entered without the second length check of lines 124-126
BeginScan_no_recheck ==
    /\ pc = "call"
    /\ ~insufficient(candles)
    /\ df' = trimmed(candles)
    /\ zones' = <<>>
    /\ in_zone' = FALSE
    /\ zone_data' = None
    /\ i' = 1
    /\ pc' = "scan"
    /\ UNCHANGED <<calls, dbvars, probe, scored, cfg, candles, zone, frame>>

\* lines 112-134
BeginScan ==
    /\ pc = "call"
    /\ ~insufficient(candles)
    /\ Len(trimmed(candles)) >= cfg.min_candle_count + 1
    /\ df' = trimmed(candles)
    /\ zones' = <<>>
    /\ in_zone' = FALSE
    /\ zone_data' = None
    /\ i' = 1
    /\ pc' = "scan"
    /\ UNCHANGED <<calls, dbvars, probe, scored, cfg, candles, zone, frame>>

\* a start that also asks for link_ok
StartZone_needs_link ==
    /\ pc = "scan" /\ i < Len(df)
    /\ ~in_zone
    /\ start_ok(iloc(df, i))
    /\ IF link_ok(iloc(df, i), iloc(df, i - 1))
       THEN in_zone' = TRUE /\ zone_data' = seed_zone(i, iloc(df, i))
       ELSE UNCHANGED <<in_zone, zone_data>>
    /\ i' = i + 1
    /\ UNCHANGED <<calls, dbvars, probe, scored, cfg, candles, pc, df, zone, frame, zones>>

\* lines 153-164
StartZone ==
    /\ pc = "scan" /\ i < Len(df)
    /\ ~in_zone
    /\ start_ok(iloc(df, i))
    /\ in_zone' = TRUE
    /\ zone_data' = seed_zone(i, iloc(df, i))
    /\ i' = i + 1
    /\ UNCHANGED <<calls, dbvars, probe, scored, cfg, candles, pc, df, zone, frame, zones>>

\* line 155 false: the candle is passed over
SkipCandle ==
    /\ pc = "scan" /\ i < Len(df)
    /\ ~in_zone
    /\ ~start_ok(iloc(df, i))
    /\ i' = i + 1
    /\ UNCHANGED <<calls, dbvars, probe, scored, cfg, candles, pc, df, in_zone, zone_data, zone, frame, zones>>

\* lines 165-182
ExtendZone ==
    /\ pc = "scan" /\ i < Len(df)
    /\ in_zone
    /\ zone_ok(zone_data, iloc(df, i), iloc(df, i - 1))
    /\ zone_data' = extend_zone(zone_data, i, iloc(df, i))
    /\ i' = i + 1
    /\ UNCHANGED <<calls, dbvars, probe, scored, cfg, candles, pc, df, in_zone, zone, frame, zones>>

\* the break without the restart at the same candle
BreakZone_no_restart ==
    /\ pc = "scan" /\ i < Len(df)
    /\ in_zone
    /\ ~zone_ok(zone_data, iloc(df, i), iloc(df, i - 1))
    /\ zone' = finalize_zone(zone_data, df, "completed")
    /\ frame' = finalize_locals(zone_data)
    /\ zones' = IF keep_zone(zone') THEN append_zone(zones, zone') ELSE zones
    /\ in_zone' = FALSE /\ zone_data' = None
    /\ i' = i + 1
    /\ UNCHANGED <<calls, dbvars, probe, scored, cfg, candles, pc, df>>

\* the break handled without moving on to the next candle
BreakZone_rewind ==
    /\ pc = "scan" /\ i < Len(df)
    /\ in_zone
    /\ ~zone_ok(zone_data, iloc(df, i), iloc(df, i - 1))
    /\ zone' = finalize_zone(zone_data, df, "completed")
    /\ frame' = finalize_locals(zone_data)
    /\ zones' = IF keep_zone(zone') THEN append_zone(zones, zone') ELSE zones
    /\ IF start_ok(iloc(df, i))
       THEN in_zone' = TRUE /\ zone_data' = seed_zone(i, iloc(df, i))
       ELSE in_zone' = FALSE /\ zone_data' = None
    /\ i' = i
    /\ UNCHANGED <<calls, dbvars, probe, scored, cfg, candles, pc, df>>

\* the tentative boundary and the breaking candle committed before the
\* candidate is finalized
BreakZone_commits_first ==
    /\ pc = "scan" /\ i < Len(df)
    /\ in_zone
    /\ ~zone_ok(zone_data, iloc(df, i), iloc(df, i - 1))
    /\ zone' = finalize_zone(extend_zone(zone_data, i, iloc(df, i)), df, "completed")
    /\ frame' = finalize_locals(extend_zone(zone_data, i, iloc(df, i)))
    /\ zones' = IF keep_zone(zone') THEN append_zone(zones, zone') ELSE zones
    /\ IF start_ok(iloc(df, i))
       THEN in_zone' = TRUE /\ zone_data' = seed_zone(i, iloc(df, i))
       ELSE in_zone' = FALSE /\ zone_data' = None
    /\ i' = i + 1
    /\ UNCHANGED <<calls, dbvars, probe, scored, cfg, candles, pc, df>>

\* a new candidate seeded from the breaking candle whatever its body and
\* momentum
BreakZone_restart_always ==
    /\ pc = "scan" /\ i < Len(df)
    /\ in_zone
    /\ ~zone_ok(zone_data, iloc(df, i), iloc(df, i - 1))
    /\ zone' = finalize_zone(zone_data, df, "completed")
    /\ frame' = finalize_locals(zone_data)
    /\ zones' = IF keep_zone(zone') THEN append_zone(zones, zone') ELSE zones
    /\ in_zone' = TRUE /\ zone_data' = seed_zone(i, iloc(df, i))
    /\ i' = i + 1
    /\ UNCHANGED <<calls, dbvars, probe, scored, cfg, candles, pc, df>>

\* the broken candidate finalized with the third status AccumulationZone names
BreakZone_as_broken ==
    /\ pc = "scan" /\ i < Len(df)
    /\ in_zone
    /\ ~zone_ok(zone_data, iloc(df, i), iloc(df, i - 1))
    /\ zone' = finalize_zone(zone_data, df, "broken")
    /\ frame' = finalize_locals(zone_data)
    /\ zones' = IF keep_zone(zone') THEN append_zone(zones, zone') ELSE zones
    /\ IF start_ok(iloc(df, i))
       THEN in_zone' = TRUE /\ zone_data' = seed_zone(i, iloc(df, i))
       ELSE in_zone' = FALSE /\ zone_data' = None
    /\ i' = i + 1
    /\ UNCHANGED <<calls, dbvars, probe, scored, cfg, candles, pc, df>>

\* the broken candidate finalized with the default status of AccumulationZone
BreakZone_as_active ==
    /\ pc = "scan" /\ i < Len(df)
    /\ in_zone
    /\ ~zone_ok(zone_data, iloc(df, i), iloc(df, i - 1))
    /\ zone' = finalize_zone(zone_data, df, "active")
    /\ frame' = finalize_locals(zone_data)
    /\ zones' = IF keep_zone(zone') THEN append_zone(zones, zone') ELSE zones
    /\ IF start_ok(iloc(df, i))
       THEN in_zone' = TRUE /\ zone_data' = seed_zone(i, iloc(df, i))
       ELSE in_zone' = FALSE /\ zone_data' = None
    /\ i' = i + 1
    /\ UNCHANGED <<calls, dbvars, probe, scored, cfg, candles, pc, df>>

\* lines 183-204
BreakZone ==
    /\ pc = "scan" /\ i < Len(df)
    /\ in_zone
    /\ ~zone_ok(zone_data, iloc(df, i), iloc(df, i - 1))
    /\ ~finalize_raises(zone_data)
    /\ zone' = finalize_zone(zone_data, df, "completed")
    /\ frame' = finalize_locals(zone_data)
    /\ zones' = IF keep_zone(zone') THEN append_zone(zones, zone') ELSE zones
    /\ IF start_ok(iloc(df, i))
       THEN in_zone' = TRUE /\ zone_data' = seed_zone(i, iloc(df, i))
       ELSE in_zone' = FALSE /\ zone_data' = None
    /\ i' = i + 1
    /\ UNCHANGED <<calls, dbvars, probe, scored, cfg, candles, pc, df>>

\* lines 206-214, a candidate is pending
FinishActive ==
    /\ pc = "scan" /\ i >= Len(df)
    /\ in_zone /\ zone_data # None
    /\ ~finalize_raises(zone_data)
    /\ zone' = finalize_zone(zone_data, df, "active")
    /\ frame' = finalize_locals(zone_data)
    /\ zones' = IF keep_zone(zone') THEN append_zone(zones, zone') ELSE zones
    /\ pc' = "done"
    /\ UNCHANGED <<calls, dbvars, probe, scored, cfg, candles, df, i, in_zone, zone_data>>

\* lines 206-214, no candidate is pending
FinishIdle ==
    /\ pc = "scan" /\ i >= Len(df)
    /\ ~(in_zone /\ zone_data # None)
    /\ pc' = "done"
    /\ UNCHANGED <<calls, dbvars, probe, scored, cfg, candles, df, i, in_zone, zone_data, zone, frame, zones>>

Next ==
    \/ ReturnInsufficient
    \/ ReturnInsufficientAfterRSI
    \/ BeginScan
    \/ StartZone
    \/ SkipCandle
    \/ ExtendZone
    \/ BreakZone
    \/ FinishActive
    \/ FinishIdle

Spec == Init /\ [][Next]_vars

\* the interpreter keeps executing the call until it has returned: no
\* statement of detect_zones waits for anything
FairSpec == Spec /\ ([]<>(pc = "done") \/ []<><<Next>>_vars)

----------------------------------------------------------------------------
(* A detector constructed from a configuration whose duration denominator
   is zero: __init__ (lines 77-94) copies the values and checks nothing *)

ZeroDurationConfigs ==
    { [WorkedConfig EXCEPT !.min_candle_count = 2, !.score_candle_max = 2,
                           !.rsi_length = 1] }

AnyInit ==
    /\ cfg \in ZeroDurationConfigs /\ candles \in CandleInputs
    /\ pc = "call"
    /\ df = <<>>
    /\ i = 0
    /\ in_zone = FALSE
    /\ zone_data = None
    /\ zone = Unbound
    /\ frame = Unbound
    /\ zones = <<>>
    /\ probe = <<>>
    /\ scored = <<>>
    /\ NoCalls /\ NoScan

\* line 185 -> line 262: the exception leaves detect_zones
BreakZoneRaises ==
    /\ pc = "scan" /\ i < Len(df)
    /\ in_zone
    /\ ~zone_ok(zone_data, iloc(df, i), iloc(df, i - 1))
    /\ finalize_raises(zone_data)
    /\ pc' = "raised"
    /\ UNCHANGED <<calls, dbvars, probe, scored, cfg, candles, df, i, in_zone, zone_data,
                   zone, frame, zones>>

\* line 208 -> line 262
FinishActiveRaises ==
    /\ pc = "scan" /\ i >= Len(df)
    /\ in_zone /\ zone_data # None
    /\ finalize_raises(zone_data)
    /\ pc' = "raised"
    /\ UNCHANGED <<calls, dbvars, probe, scored, cfg, candles, df, i, in_zone, zone_data,
                   zone, frame, zones>>

AnyNext ==
    \/ ReturnInsufficient
    \/ ReturnInsufficientAfterRSI
    \/ BeginScan
    \/ StartZone
    \/ SkipCandle
    \/ ExtendZone
    \/ BreakZone
    \/ FinishActive
    \/ FinishIdle
    \/ BreakZoneRaises
    \/ FinishActiveRaises

AnySpec == AnyInit /\ [][AnyNext]_vars

----------------------------------------------------------------------------
(* _finalize_zone as a function of the candidate: each run hands it two
   candidates that differ in their body range alone *)

ScoreConfigs ==
    { [WorkedConfig EXCEPT !.min_candle_count = 1, !.score_candle_max = 3,
                           !.max_total_zone_diff = mf[1], !.score_diff_min = mf[2]]
        : mf \in { <<6, 2>>, <<3, 1>>, <<2, 6>>, <<1, 3>> } }

ProbeRows ==
    [p \in 1..3 |-> [Date |-> p, Open |-> 100, Close |-> 100, RSI |-> Num(50),
                     BodyLow |-> 100, BodyHigh |-> 100]]

\* a candidate of n candles from index 1 on, bodies within [100, high]
Candidate(high, n, r) ==
    [start_idx |-> 1,
     candles |-> [k \in 1..n |-> k],
     highest_body |-> high,
     lowest_body |-> 100,
     rsi_values |-> [k \in 1..n |-> Num(r)]]

\* what the scan can hand over: a seed passed body_ok alone (lines 155-163),
\* a longer candidate passed the range test of line 175 at its last extension
CandidateShape(c, zd) ==
    IF Len(zd.candles) = 1
    THEN 100 * (zd.highest_body - zd.lowest_body) <= c.max_body_diff * zd.highest_body
    ELSE 100 * (zd.highest_body - zd.lowest_body) <= c.max_total_zone_diff * zd.lowest_body

Probes ==
    { <<Candidate(100 + ha, n, r), Candidate(100 + hb, n, r)>> :
        ha \in 0..MaxRange, hb \in 0..MaxRange, n \in 1..2, r \in {0, 50, 100} }

ScoreInit ==
    /\ cfg \in ScoreConfigs
    /\ probe \in Probes
    /\ \A k \in 1..Len(probe) : CandidateShape(cfg, probe[k])
    /\ scored = <<>>
    /\ candles = None
    /\ pc = "probe"
    /\ df = ProbeRows
    /\ i = 0
    /\ in_zone = FALSE
    /\ zone_data = None
    /\ zone = Unbound
    /\ frame = Unbound
    /\ zones = <<>>
    /\ NoCalls /\ NoScan

\* one call of _finalize_zone (lines 216-288) on the next candidate
FinalizeProbe ==
    /\ pc = "probe"
    /\ Len(scored) < Len(probe)
    /\ zone' = finalize_zone(probe[Len(scored) + 1], df, "completed")
    /\ frame' = finalize_locals(probe[Len(scored) + 1])
    /\ scored' = Append(scored, [zone |-> zone', frame |-> frame'])
    /\ UNCHANGED <<calls, dbvars, probe, cfg, candles, pc, df, i, in_zone, zone_data, zones>>

ScoreNext == FinalizeProbe

ScoreSpec == ScoreInit /\ [][ScoreNext]_vars

----------------------------------------------------------------------------
(* _finalize_zone as a function of the candle count: each run hands it two
   candidates that differ in their length alone *)

\* min_candle_count below and above score_candle_max
DurationConfigs ==
    { [WorkedConfig EXCEPT !.min_candle_count = mc[1], !.score_candle_max = mc[2]]
        : mc \in { <<1, 3>>, <<2, 4>>, <<2, 3>>, <<3, 1>>, <<2, 1>> } }

DurationRows ==
    [p \in 1..(MaxCandles + 1) |->
        [Date |-> p, Open |-> 100, Close |-> 100, RSI |-> Num(50),
         BodyLow |-> 100, BodyHigh |-> 100]]

DurationProbes ==
    { <<Candidate(100 + h, na, r), Candidate(100 + h, nb, r)>> :
        h \in 0..MaxRange, na \in 1..MaxCandles, nb \in 1..MaxCandles,
        r \in {0, 50, 100} }

DurationInit ==
    /\ cfg \in DurationConfigs
    /\ probe \in DurationProbes
    /\ \A k \in 1..Len(probe) : CandidateShape(cfg, probe[k])
    /\ scored = <<>>
    /\ candles = None
    /\ pc = "probe"
    /\ df = DurationRows
    /\ i = 0
    /\ in_zone = FALSE
    /\ zone_data = None
    /\ zone = Unbound
    /\ frame = Unbound
    /\ zones = <<>>
    /\ NoCalls /\ NoScan

DurationSpec == DurationInit /\ [][ScoreNext]_vars

----------------------------------------------------------------------------
(* Several detect_zones calls on one detector.  The detector holds the
   configuration attributes only (lines 77-94); df, i, in_zone, zone_data
   and zones are locals of each call (lines 112-134). *)

CallIds == {"first", "between", "again"}

CallConfigs ==
    { [WorkedConfig EXCEPT !.min_candle_count = 1, !.score_candle_max = 3,
                           !.rsi_length = 1, !.max_total_zone_diff = 3,
                           !.score_diff_min = 1, !.min_score = 40],
      [WorkedConfig EXCEPT !.min_candle_count = 2, !.score_candle_max = 4,
                           !.rsi_length = 1] }

\* <<ticker, df>> arguments of the calls
CallInputs ==
    { <<"AAA", DataFrame(<< <<100, 101>>, <<101, 100>>, <<100, 101>>, <<101, 100>> >>)>>,
      <<"AAA", DataFrame(<< <<101, 100>>, <<100, 101>>, <<101, 100>>, <<107, 103>> >>)>>,
      <<"BBB", DataFrame(<< <<100, 101>>, <<101, 100>>, <<100, 101>>, <<101, 100>> >>)>>,
      <<"BBB", DataFrame(<< <<100, 105>>, <<101, 100>> >>)>> }

\* the frame of a call at line 96
new_call(ticker, frame_in) ==
    [ticker |-> ticker, candles |-> frame_in, pc |-> "call", df |-> <<>>,
     i |-> 0, in_zone |-> FALSE, zone_data |-> None, zones |-> <<>>]

\* _finalize_zone called from a call for st.ticker
finalize_for(st, status) ==
    LET z == finalize_zone(st.zone_data, st.df, status)
    IN  IF z = None THEN None ELSE [z EXCEPT !.ticker = st.ticker]

\* the next statement block of a call, on its own locals
step(st) ==
    IF st.pc = "call" THEN
        IF insufficient(st.candles) THEN [st EXCEPT !.pc = "done"]
        ELSE IF Len(trimmed(st.candles)) < cfg.min_candle_count + 1
        THEN [st EXCEPT !.df = trimmed(st.candles), !.pc = "done"]
        ELSE [st EXCEPT !.df = trimmed(st.candles), !.zones = <<>>,
                        !.in_zone = FALSE, !.zone_data = None,
                        !.i = 1, !.pc = "scan"]
    ELSE IF st.i < Len(st.df) THEN
        LET current == iloc(st.df, st.i)
            prev == iloc(st.df, st.i - 1)
        IN  IF ~st.in_zone THEN
                IF start_ok(current)
                THEN [st EXCEPT !.in_zone = TRUE,
                                !.zone_data = seed_zone(st.i, current),
                                !.i = st.i + 1]
                ELSE [st EXCEPT !.i = st.i + 1]
            ELSE IF zone_ok(st.zone_data, current, prev)
            THEN [st EXCEPT !.zone_data = extend_zone(st.zone_data, st.i, current),
                            !.i = st.i + 1]
            ELSE LET z == finalize_for(st, "completed")
                 IN  [st EXCEPT
                        !.zones = IF keep_zone(z) THEN append_zone(st.zones, z)
                                  ELSE st.zones,
                        !.in_zone = start_ok(current),
                        !.zone_data = IF start_ok(current)
                                      THEN seed_zone(st.i, current) ELSE None,
                        !.i = st.i + 1]
    ELSE IF st.in_zone /\ st.zone_data # None THEN
        LET z == finalize_for(st, "active")
        IN  [st EXCEPT !.zones = IF keep_zone(z) THEN append_zone(st.zones, z)
                                 ELSE st.zones,
                       !.pc = "done"]
    ELSE [st EXCEPT !.pc = "done"]

CallsInit ==
    /\ cfg \in CallConfigs
    /\ calls \in [CallIds -> { new_call(a[1], a[2]) : a \in CallInputs }]
    /\ candles = None
    /\ pc = "calls"
    /\ df = <<>>
    /\ i = 0
    /\ in_zone = FALSE
    /\ zone_data = None
    /\ zone = Unbound
    /\ frame = Unbound
    /\ zones = <<>>
    /\ probe = <<>>
    /\ scored = <<>>
    /\ NoScan

\* a zones list kept on the detector and never reset: a call starts from
\* the list a finished call left
CallStep_zones_kept(c) ==
    /\ calls[c].pc # "done"
    /\ \E d \in CallIds :
         /\ d = c \/ calls[d].pc = "done"
         /\ calls' = [calls EXCEPT ![c] =
               IF calls[c].pc = "call" /\ step(calls[c]).pc = "scan"
               THEN [step(calls[c]) EXCEPT !.zones = calls[d].zones]
               ELSE step(calls[c])]
    /\ UNCHANGED <<dbvars, probe, scored, cfg, candles, pc, df, i, in_zone,
                   zone_data, zone, frame, zones>>

\* a zones list shared through the detector: what one call appends, every
\* call in its loop sees
CallStep_zones_shared(c) ==
    /\ calls[c].pc # "done"
    /\ calls' = [d \in CallIds |->
          IF d = c THEN step(calls[c])
          ELSE IF calls[d].pc = "scan"
               THEN [calls[d] EXCEPT !.zones = step(calls[c]).zones]
               ELSE calls[d]]
    /\ UNCHANGED <<dbvars, probe, scored, cfg, candles, pc, df, i, in_zone,
                   zone_data, zone, frame, zones>>

\* line 112 without .copy(): the RSI and body columns land in the caller's
\* frame
CallStep_no_copy(c) ==
    /\ calls[c].pc # "done"
    /\ calls' = [calls EXCEPT ![c] =
          IF calls[c].pc = "call" /\ ~insufficient(calls[c].candles)
          THEN [step(calls[c]) EXCEPT !.candles =
                  [tag |-> "DataFrame",
                   rows |-> with_columns(calls[c].candles.rows, cfg.rsi_length)]]
          ELSE step(calls[c])]
    /\ UNCHANGED <<dbvars, probe, scored, cfg, candles, pc, df, i, in_zone,
                   zone_data, zone, frame, zones>>

\* one call executes its next statement block; the calls interleave freely
CallStep(c) ==
    /\ calls[c].pc # "done"
    /\ calls' = [calls EXCEPT ![c] = step(calls[c])]
    /\ UNCHANGED <<dbvars, probe, scored, cfg, candles, pc, df, i, in_zone,
                   zone_data, zone, frame, zones>>

CallsNext == \E c \in CallIds : CallStep(c)

CallsSpec == CallsInit /\ [][CallsNext]_vars

RECURSIVE run(_)
\* a call executed alone, to its return
run(st) == IF st.pc = "done" THEN st ELSE run(step(st))

\* what detect_zones(ticker, df) returns when nothing else runs
detect_zones(ticker, frame_in) == run(new_call(ticker, frame_in)).zones

----------------------------------------------------------------------------
(* The scheduled scan (scheduler.py, _execute_scan) and the database
   (db_manager.py).  Dates are day numbers; a candle's Date is its day. *)

\* ScannerConfig.COMPLETED_ZONE_RETENTION_DAYS
RetentionDays == 21

\* tickers.txt, in file order
tickers == <<"AAA", "BBB">>

\* the configuration the scan builds its detector from, scaled so that
\* zones form within DataPeriod candles
ScanConfig ==
    [WorkedConfig EXCEPT !.min_candle_count = 1, !.score_candle_max = 3,
                         !.rsi_length = 1, !.max_total_zone_diff = 3,
                         !.score_diff_min = 1, !.min_score = 40]

\* daily candles of one instrument over the days 1..5
Tapes ==
    { DataFrame(<< <<101, 100>>, <<100, 101>>, <<101, 100>>, <<107, 103>>, <<101, 100>> >>),
      DataFrame(<< <<101, 100>>, <<100, 101>>, <<101, 100>>, <<100, 101>>, <<101, 100>> >>),
      DataFrame(<< <<100, 105>>, <<107, 103>>, <<100, 105>>, <<107, 103>>, <<100, 105>> >>),
      DataFrame(<< <<101, 100>>, <<100, 101>>, <<101, 100>>, <<100, 99>>, <<99, 100>> >>) }

\* the day of the first scan
FirstDay == 3

\* DataFetcher.fetch_ticker_data: the candles of the last DataPeriod days,
\* None when there are none
fetch_ticker_data(ticker) ==
    LET rows == SelectSeq(market[ticker].rows,
                          LAMBDA r : r.Date <= today /\ r.Date > today - DataPeriod)
    IN  IF rows = <<>> THEN None ELSE [tag |-> "DataFrame", rows |-> rows]

\* DataFetcher.fetch_multiple_tickers: the tickers that have data, in order
ticker_data == SelectSeq(tickers, LAMBDA t : fetch_ticker_data(t) # None)

\* scheduler.py line 142
existing_actives(zs) == { k \in 1..Len(zs) : zs[k].status = "active" }

\* db_manager.py lines 164-184
mark_zones_as_broken(rows, ticker) ==
    { IF r.ticker = ticker /\ r.status = "active"
      THEN [r EXCEPT !.status = "broken"] ELSE r : r \in rows }

\* the lookup by ticker and start date alone
save_zone_matches_any_status(rows, z) ==
    { r \in rows : /\ r.ticker = z.ticker
                   /\ r.start_date = z.start_date }

\* save_zone line 36-40: the rows the lookup can return
save_zone_matches(rows, z) ==
    { r \in rows : /\ r.ticker = z.ticker
                   /\ r.start_date = z.start_date
                   /\ r.status = "active" }

\* save_zone lines 42-51
updated_row(existing, z) ==
    [existing EXCEPT !.end_date = z.end_date,
                     !.candle_count = z.candle_count,
                     !.score = z.score,
                     !.total_diff_percent = z.total_diff_percent,
                     !.avg_rsi = z.avg_rsi,
                     !.highest_body = z.highest_body,
                     !.lowest_body = z.lowest_body,
                     !.status = z.status]

\* save_zone lines 62-73
new_row(id, z) ==
    [id |-> id, ticker |-> z.ticker,
     start_date |-> z.start_date, end_date |-> z.end_date,
     candle_count |-> z.candle_count, score |-> z.score,
     total_diff_percent |-> z.total_diff_percent, avg_rsi |-> z.avg_rsi,
     highest_body |-> z.highest_body, lowest_body |-> z.lowest_body,
     status |-> z.status]

\* the history that gets a new entry on every save
add_score_history_always_appends(h, row) ==
    LET earlier == { k \in 1..Len(h) : h[k].zone_id = row.id }
        score_change ==
            IF earlier = {} THEN 0
            ELSE LET y == CHOOSE m \in earlier :
                            \A n \in earlier :
                                \/ h[n].date < h[m].date
                                \/ h[n].date = h[m].date /\ m <= n
                 IN  row.score - h[y].score
    IN  Append(h, [zone_id |-> row.id, date |-> today,
                   score |-> row.score,
                   score_change |-> score_change,
                   candle_count |-> row.candle_count])

\* db_manager.py lines 88-129
add_score_history(h, row) ==
    LET todays == { k \in 1..Len(h) : h[k].zone_id = row.id /\ h[k].date = today }
        earlier == { k \in 1..Len(h) : h[k].zone_id = row.id }
    IN  IF todays # {}
        THEN LET k == CHOOSE m \in todays : \A n \in todays : m <= n
             IN  [h EXCEPT ![k] = [zone_id |-> row.id, date |-> today,
                                   score |-> row.score,
                                   score_change |-> row.score - h[k].score,
                                   candle_count |-> row.candle_count]]
        ELSE LET score_change ==
                   IF earlier = {} THEN 0
                   ELSE LET y == CHOOSE m \in earlier :
                                   \A n \in earlier :
                                       \/ h[n].date < h[m].date
                                       \/ h[n].date = h[m].date /\ m <= n
                        IN  row.score - h[y].score
             IN  Append(h, [zone_id |-> row.id, date |-> today,
                            score |-> row.score,
                            score_change |-> score_change,
                            candle_count |-> row.candle_count])

\* create_app: the default SQLite file, or the PostgreSQL server DATABASE_URL
\* names
Engines == {"sqlite", "postgresql"}

\* db_manager.py lines 194-199: the rows the DELETE statement selects
old_zones(rows, days) ==
    { r \in rows : /\ r.status \in {"completed", "broken"}
                   /\ r.end_date < today - days }

\* score_history.zone_id references zones.id with no ON DELETE rule, and
\* Query.delete() is one DELETE statement that runs no ORM cascade:
\* PostgreSQL rejects it when a selected zone still has score_history rows,
\* SQLite as SQLAlchemy opens it does not enforce foreign keys
delete_rejected(rows, h, days) ==
    /\ engine = "postgresql"
    /\ \E r \in old_zones(rows, days) : \E k \in 1..Len(h) : h[k].zone_id = r.id

\* db_manager.py lines 186-209: a rejected DELETE is rolled back (lines
\* 205-208)
cleanup_old_zones(rows, h, days) ==
    IF delete_rejected(rows, h, days) THEN rows
    ELSE rows \ old_zones(rows, days)

\* the locals of _execute_scan between two scans
\* raised lists the exceptions raised while the tickers were handled, in
\* order, caught in the loop body or inside save_zone
scan_idle(runs) ==
    [pc |-> "idle", todo |-> <<>>, ticker |-> "unbound", zones |-> <<>>,
     k |-> 0, active_zones_count |-> 0, completed_zones_count |-> 0,
     errors |-> <<>>, raised |-> <<>>, runs |-> runs, faults |-> 0]

\* db_manager.py lines 211-237
save_scan_log(logs, total_tickers, active_zones, completed_zones, errors) ==
    Append(logs, [total_tickers |-> total_tickers,
                  active_zones_found |-> active_zones,
                  completed_zones |-> completed_zones,
                  errors |-> errors])

DbInit ==
    /\ cfg = ScanConfig
    /\ market \in [{tickers[k] : k \in 1..Len(tickers)} -> Tapes]
    /\ today = FirstDay
    /\ store = {}
    /\ history = <<>>
    /\ next_id = 1
    /\ scan = scan_idle(0)
    /\ scan_logs = <<>>
    /\ engine \in Engines
    /\ candles = None
    /\ pc = "scheduler"
    /\ df = <<>>
    /\ i = 0
    /\ in_zone = FALSE
    /\ zone_data = None
    /\ zone = Unbound
    /\ frame = Unbound
    /\ zones = <<>>
    /\ probe = <<>>
    /\ scored = <<>>
    /\ NoCalls

\* the variables of the detector's own state machine
detector_vars ==
    <<cfg, candles, pc, df, i, in_zone, zone_data, zone, frame, zones,
      probe, scored, calls>>

\* scheduler.py lines 84-131: a cron job fires, tickers and data are loaded
ScanStart ==
    /\ scan.pc = "idle"
    /\ scan.runs < MaxScans
    /\ scan' = [scan_idle(scan.runs + 1) EXCEPT !.pc = "tickers",
                                                 !.todo = ticker_data,
                                                 !.faults = scan.faults]
    /\ UNCHANGED <<store, history, next_id, today, market, engine, scan_logs,
                   detector_vars>>

\* scheduler.py lines 100-114: tickers.txt is empty or cannot be read
\* (load_tickers_from_file returns []); the scan logs that and returns
ScanNoTickers ==
    /\ scan.pc = "idle"
    /\ scan.runs < MaxScans
    /\ scan.faults < MaxFaults
    /\ scan' = [scan_idle(scan.runs + 1) EXCEPT
                  !.errors = << <<"No tickers loaded from file">> >>,
                  !.faults = scan.faults + 1]
    /\ scan_logs' = save_scan_log(scan_logs, 0, 0, 0,
                                  << <<"No tickers loaded from file">> >>)
    /\ UNCHANGED <<store, history, next_id, today, market, engine, detector_vars>>

\* scheduler.py lines 116-127 and 189-200: an exception escapes before the
\* loop, while tickers is bound and the counters are not
ScanFatalBeforeLoop ==
    /\ scan.pc = "idle"
    /\ scan.runs < MaxScans
    /\ scan.faults < MaxFaults
    /\ scan' = [scan_idle(scan.runs + 1) EXCEPT
                  !.errors = << <<"Fatal error during scan">> >>,
                  !.faults = scan.faults + 1]
    /\ scan_logs' = save_scan_log(scan_logs, Len(tickers), 0, 0,
                                  << <<"Fatal error during scan">> >>)
    /\ UNCHANGED <<store, history, next_id, today, market, engine, detector_vars>>

\* the exception that ends the loop: the tickers that remain are dropped
AnalyzeTickerRaises_aborts ==
    /\ scan.pc = "tickers"
    /\ scan.todo # <<>>
    /\ scan.faults < MaxFaults
    /\ LET ticker == Head(scan.todo)
       IN  scan' = [scan EXCEPT
                 !.faults = @ + 1,
                 !.todo = <<>>,
                 !.ticker = ticker,
                 !.errors = Append(@, <<"Error analyzing", ticker>>),
                 !.raised = Append(@, [ticker |-> ticker, in |-> "detect_zones"])]
    /\ UNCHANGED <<store, history, next_id, today, market, engine, scan_logs,
                   detector_vars>>

\* scheduler.py lines 134-138 and 160-163: detect_zones raises for the next
\* ticker; the loop body logs the error and goes on
AnalyzeTickerRaises ==
    /\ scan.pc = "tickers"
    /\ scan.todo # <<>>
    /\ scan.faults < MaxFaults
    /\ LET ticker == Head(scan.todo)
       IN  scan' = [scan EXCEPT
                 !.faults = @ + 1,
                 !.todo = Tail(scan.todo),
                 !.ticker = ticker,
                 !.errors = Append(@, <<"Error analyzing", ticker>>),
                 !.raised = Append(@, [ticker |-> ticker, in |-> "detect_zones"])]
    /\ UNCHANGED <<store, history, next_id, today, market, engine, scan_logs,
                   detector_vars>>

\* the loop body of lines 133-147 and 157-159 without line 147: the old
\* active rows are left alone when the fresh list has zones
AnalyzeTicker_keep_actives ==
    /\ scan.pc = "tickers"
    /\ scan.todo # <<>>
    /\ LET ticker == Head(scan.todo)
           fresh == detect_zones(ticker, fetch_ticker_data(ticker))
       IN  /\ store' = IF fresh = <<>>
                       THEN mark_zones_as_broken(store, ticker)
                       ELSE store
           /\ scan' = [scan EXCEPT !.todo = Tail(scan.todo),
                                   !.ticker = ticker,
                                   !.zones = fresh,
                                   !.k = 1,
                                   !.pc = IF fresh # <<>> THEN "saving"
                                          ELSE "tickers"]
    /\ UNCHANGED <<history, next_id, today, market, engine, scan_logs, detector_vars>>

\* scheduler.py lines 133-147 and 157-159: the next ticker is analysed
AnalyzeTicker ==
    /\ scan.pc = "tickers"
    /\ scan.todo # <<>>
    /\ LET ticker == Head(scan.todo)
           fresh == detect_zones(ticker, fetch_ticker_data(ticker))
       IN  /\ store' = IF fresh = <<>> \/ existing_actives(fresh) = {}
                       THEN mark_zones_as_broken(store, ticker)
                       ELSE store
           /\ scan' = [scan EXCEPT !.todo = Tail(scan.todo),
                                   !.ticker = ticker,
                                   !.zones = fresh,
                                   !.k = 1,
                                   !.pc = IF fresh # <<>> THEN "saving"
                                          ELSE "tickers"]
    /\ UNCHANGED <<history, next_id, today, market, engine, scan_logs, detector_vars>>

\* scheduler.py lines 149-156 with db_manager.py lines 24-86: one zone of
\* the fresh list is saved
SaveZone ==
    /\ scan.pc = "saving"
    /\ LET z == scan.zones[scan.k]
           matches == save_zone_matches(store, z)
       IN  /\ \/ /\ matches # {}
                 /\ \E existing \in matches :
                      /\ store' = (store \ {existing}) \cup {updated_row(existing, z)}
                      /\ history' = add_score_history(history, updated_row(existing, z))
                 /\ next_id' = next_id
              \/ /\ matches = {}
                 /\ store' = store \cup {new_row(next_id, z)}
                 /\ history' = add_score_history(history, new_row(next_id, z))
                 /\ next_id' = next_id + 1
           /\ scan' = [scan EXCEPT
                 !.k = scan.k + 1,
                 !.active_zones_count = IF z.status = "active" THEN @ + 1 ELSE @,
                 !.completed_zones_count = IF z.status = "active" THEN @ ELSE @ + 1,
                 !.pc = IF scan.k = Len(scan.zones) THEN "tickers" ELSE "saving"]
    /\ UNCHANGED <<today, market, engine, scan_logs, detector_vars>>

\* scheduler.py lines 150-156 with db_manager.py lines 83-86: the database
\* raises inside save_zone, which rolls back and returns None; the zone is
\* not counted and the loop goes on with the next zone
SaveZoneFails ==
    /\ scan.pc = "saving"
    /\ scan.faults < MaxFaults
    /\ scan' = [scan EXCEPT
          !.faults = @ + 1,
          !.k = scan.k + 1,
          !.raised = Append(@, [ticker |-> scan.ticker, in |-> "save_zone"]),
          !.pc = IF scan.k = Len(scan.zones) THEN "tickers" ELSE "saving"]
    /\ UNCHANGED <<store, history, next_id, today, market, engine, scan_logs,
                   detector_vars>>

\* the fatal exit that writes no scan log
CleanupRaises_unlogged ==
    /\ scan.pc = "tickers"
    /\ scan.todo = <<>>
    /\ scan.faults < MaxFaults
    /\ scan' = [scan EXCEPT !.pc = "idle",
                            !.faults = @ + 1,
                            !.errors = Append(@, <<"Fatal error during scan">>)]
    /\ UNCHANGED <<store, history, next_id, today, market, engine, scan_logs,
                   detector_vars>>

\* scheduler.py lines 166-170 and 189-200: an exception escapes after the
\* loop, before the scan log of line 174; the handler logs the scan with
\* the counters it has
CleanupRaises ==
    /\ scan.pc = "tickers"
    /\ scan.todo = <<>>
    /\ scan.faults < MaxFaults
    /\ scan' = [scan EXCEPT !.pc = "idle",
                            !.faults = @ + 1,
                            !.errors = Append(@, <<"Fatal error during scan">>)]
    /\ scan_logs' = save_scan_log(scan_logs, Len(tickers),
                                  scan.active_zones_count,
                                  scan.completed_zones_count,
                                  Append(scan.errors, <<"Fatal error during scan">>))
    /\ UNCHANGED <<store, history, next_id, today, market, engine, detector_vars>>

\* scheduler.py lines 166-170
Cleanup ==
    /\ scan.pc = "tickers"
    /\ scan.todo = <<>>
    /\ store' = cleanup_old_zones(store, history, RetentionDays)
    /\ scan' = [scan EXCEPT !.pc = "log"]
    /\ UNCHANGED <<history, next_id, today, market, engine, scan_logs, detector_vars>>

\* scheduler.py lines 172-180 with db_manager.py lines 211-237
SaveScanLog ==
    /\ scan.pc = "log"
    /\ scan_logs' = save_scan_log(scan_logs, Len(tickers),
                                  scan.active_zones_count,
                                  scan.completed_zones_count,
                                  scan.errors)
    /\ scan' = [scan EXCEPT !.pc = "idle"]
    /\ UNCHANGED <<store, history, next_id, today, market, engine, detector_vars>>

\* midnight passes between two scans
AdvanceDay ==
    /\ scan.pc = "idle"
    /\ today < MaxDay
    /\ today' = today + 1
    /\ UNCHANGED <<store, history, next_id, scan, market, engine, scan_logs,
                   detector_vars>>

\* the application is down for the whole retention period: no cron job
\* fires until it is started again
Outage ==
    /\ scan.pc = "idle"
    /\ today <= MaxDay
    /\ today' = today + RetentionDays
    /\ UNCHANGED <<store, history, next_id, scan, market, engine, scan_logs,
                   detector_vars>>

DbNext ==
    \/ ScanStart
    \/ AnalyzeTicker
    \/ SaveZone
    \/ Cleanup
    \/ SaveScanLog
    \/ AdvanceDay
    \/ Outage

DbSpec == DbInit /\ [][DbNext]_vars

----------------------------------------------------------------------------
(* The scheduled scans of one day (the cron jobs of 09:00, 14:45 and 18:30)
   in an environment that fails: the ticker file cannot be read, a call
   raises.  One market and one database, so that the failures can fall at
   every point of every scan. *)

FaultMarket ==
    [t \in {tickers[k] : k \in 1..Len(tickers)} |->
        IF t = tickers[1]
        THEN DataFrame(<< <<101, 100>>, <<100, 101>>, <<101, 100>>, <<100, 99>>, <<99, 100>> >>)
        ELSE DataFrame(<< <<101, 100>>, <<100, 101>>, <<101, 100>>, <<107, 103>>, <<101, 100>> >>)]

FaultInit ==
    /\ DbInit
    /\ market = FaultMarket
    /\ engine = "sqlite"

FaultNext ==
    \/ ScanStart
    \/ ScanNoTickers
    \/ ScanFatalBeforeLoop
    \/ AnalyzeTicker
    \/ AnalyzeTickerRaises
    \/ SaveZone
    \/ SaveZoneFails
    \/ Cleanup
    \/ CleanupRaises
    \/ SaveScanLog

FaultSpec == FaultInit /\ [][FaultNext]_vars

\* the cron jobs keep firing and a scan that has started keeps running
\* until the last scan of the day has returned
FairFaultSpec ==
    FaultSpec /\ ([]<>(scan.pc = "idle" /\ scan.runs = MaxScans)
                    \/ []<><<FaultNext>>_vars)

----------------------------------------------------------------------------
(* Claims about detect_zones *)

Emitted == { zones[k] : k \in 1..Len(zones) }
LastDate == df[Len(df)].Date

\* C1: every zone in the returned list has candle_count >= min_candle_count,
\* and a finalized candidate with fewer members yields no zone at all.
C1_MinCandleCount ==
    /\ \A z \in Emitted : z.candle_count >= cfg.min_candle_count
    /\ (zone # Unbound /\ zone # None) => zone.candle_count >= cfg.min_candle_count

\* the scan ended by discarding a short open candidate, after emitting a zone
C1_Witness ==
    /\ pc = "done" /\ in_zone
    /\ Len(zone_data.candles) < cfg.min_candle_count
    /\ zone = None
    /\ Len(zones) > 0

\* the filters as the specification words them, on integers
BodyOk(c) == 100 * Abs(c.BodyHigh - c.BodyLow) <= cfg.max_body_diff * c.Open
MomentumOk(c) == c.RSI.n <= cfg.rsi_max_limit * c.RSI.d
LinkOk(c, prev) == 100 * Abs(c.Close - prev.Close) <= cfg.max_link_diff * prev.Close
RangeOk(zd, c) ==
    100 * (Max2(zd.highest_body, c.BodyHigh) - Min2(zd.lowest_body, c.BodyLow))
        <= cfg.max_total_zone_diff * Min2(zd.lowest_body, c.BodyLow)
ExtensionOk(zd, c, prev) ==
    BodyOk(c) /\ LinkOk(c, prev) /\ MomentumOk(c) /\ RangeOk(zd, c)

\* C2: a step taken InZone at a candle that fails the extension test finalizes
\* the candidate as completed and re-tests the same candle: it seeds a new
\* candidate with exactly that candle if bodyOk and momentumOk hold, and
\* leaves the scanner OutOfZone with no candidate otherwise; the index moves
\* on by one either way.
C2_BreakStep ==
    (/\ pc = "scan" /\ i < Len(df) /\ in_zone
     /\ ~ExtensionOk(zone_data, iloc(df, i), iloc(df, i - 1)))
    => /\ i' = i + 1
       /\ pc' = "scan"
       /\ zone' # Unbound
       /\ zone' # None => /\ zone'.status = "completed"
                          /\ zone'.end_date = iloc(df, i - 1).Date
                          /\ zone'.candle_count = Len(zone_data.candles)
       /\ IF BodyOk(iloc(df, i)) /\ MomentumOk(iloc(df, i))
          THEN /\ in_zone'
               /\ zone_data'.start_idx = i
               /\ zone_data'.candles = <<i>>
               /\ zone_data'.highest_body = iloc(df, i).BodyHigh
               /\ zone_data'.lowest_body = iloc(df, i).BodyLow
               /\ zone_data'.rsi_values = <<iloc(df, i).RSI>>
          ELSE ~in_zone' /\ zone_data' = None

C2_RestartAtBreak == [][C2_BreakStep]_vars

\* a zone that ended at candle i-2 was emitted and candle i-1, which broke
\* it, is the seed of the pending candidate
C2_Witness ==
    /\ pc = "scan" /\ in_zone /\ i >= 2
    /\ zone_data.candles = <<i - 1>>
    /\ zone # Unbound /\ zone # None
    /\ zone.end_date = iloc(df, i - 2).Date
    /\ zone.status = "completed"

\* C5: a returned zone is active exactly when its last member is the last
\* candle of the trimmed sequence; a completed zone ends strictly before it.
C5_ActiveIffOpenAtEnd ==
    \A z \in Emitted :
        /\ z.status = "active" <=> z.end_date = LastDate
        /\ z.status = "completed" => z.end_date < LastDate
        /\ z.status = "active" => pc = "done"

\* the returned list holds a completed and an active zone
C5_Witness ==
    /\ pc = "done"
    /\ \E z \in Emitted : z.status = "active"
    /\ \E z \in Emitted : z.status = "completed"

\* C6: start dates strictly increase along the list, at most one zone is
\* active, and an active zone is the last element.
C6_ChronologicalOrder ==
    /\ \A k \in 1..Len(zones) - 1 : zones[k].start_date < zones[k + 1].start_date
    /\ \A k \in 1..Len(zones) : zones[k].status = "active" => k = Len(zones)

\* a completed zone followed by the active one
C6_Witness ==
    /\ pc = "done"
    /\ Len(zones) >= 2
    /\ zones[Len(zones)].status = "active"
    /\ zones[1].status = "completed"

\* C7: every returned zone has score >= min_score, and a finalized candidate
\* scored below it is left out without ending the scan.
C7_DropStep ==
    (/\ pc = "scan" /\ i < Len(df)
     /\ zone' # zone /\ zone' # None /\ zone'.score < 10 * cfg.min_score)
    => zones' = zones /\ pc' = "scan" /\ i' = i + 1

C7_Kept == \A z \in Emitted : z.score >= 10 * cfg.min_score

C7_MinScore == []C7_Kept /\ [][C7_DropStep]_vars

\* a completed candidate was scored below the threshold and dropped, and
\* candles remain to be scanned
C7_Witness ==
    /\ pc = "scan" /\ i < Len(df)
    /\ zone # Unbound /\ zone # None
    /\ zone.score < 10 * cfg.min_score
    /\ zone \notin Emitted

\* C8: every returned score lies in [0, 100]; the score of a finalized zone
\* is the sum of the three sub-scores, each within [0, 33.33], rounded to one
\* decimal place (score is in tenths).
InSubScoreRange(x) == 0 <= x.n /\ 100 * x.n <= 3333 * x.d

C8_ScoreRange ==
    /\ \A z \in Emitted : 0 <= z.score /\ z.score <= 1000
    /\ frame # Unbound =>
        /\ InSubScoreRange(frame.compression_score)
        /\ InSubScoreRange(frame.rsi_score)
        /\ InSubScoreRange(frame.duration_score)
        /\ LET sum == RAdd(RAdd(frame.compression_score, frame.rsi_score),
                           frame.duration_score)
           IN  /\ frame.total_score = sum
               /\ 2 * Abs(10 * sum.n - zone.score * sum.d) <= sum.d

\* an emitted zone with a clamped sub-score at each end of the range
C8_Witness ==
    /\ frame # Unbound
    /\ zone \in Emitted
    /\ frame.compression_score = ScoreCap
    /\ frame.duration_score = Num(0)
    /\ frame.rsi_score # Num(0) /\ frame.rsi_score # ScoreCap

\* C9: every returned zone has highest_body >= lowest_body and a
\* total_diff_percent >= 0.
C9_BodyOrder ==
    \A z \in Emitted :
        z.highest_body >= z.lowest_body /\ z.total_diff_percent >= 0

\* a zone of several candles with a body range of positive width
C9_Witness ==
    \E z \in Emitted :
        z.candle_count >= 2 /\ z.highest_body > z.lowest_body
                            /\ z.total_diff_percent > 0

\* C3: the worked scenario: the momentum of the eight alternating candles
\* is undefined for the first two and 50 for the other six, and the call
\* returns exactly one zone, active, of 5 candles, with total range 1.0,
\* average momentum 50.0 and score 52.1.
C3_WorkedScenario ==
    (pc = "done" /\ cfg = WorkedConfig /\ candles = WorkedCandles)
    => /\ Len(df) = 6
       /\ \A p \in 1..Len(df) : df[p].Date = p + 2 /\ df[p].RSI = Num(50)
       /\ Len(zones) = 1
       /\ zones[1].candle_count = 5
       /\ zones[1].total_diff_percent = 100
       /\ zones[1].avg_rsi = 500
       /\ zones[1].score = 521
       /\ zones[1].status = "active"

\* C4: when no two consecutive closes are equal, the rows dropped before the
\* scan are exactly the first rsi_length rows.
NoFlatRun(rows) == \A p \in 2..Len(rows) : rows[p].Close # rows[p - 1].Close

C4_WarmUp ==
    (/\ pc # "call" /\ candles # None
     /\ ~insufficient(candles)
     /\ NoFlatRun(candles.rows))
    => \A p \in 1..Len(candles.rows) :
           (p <= cfg.rsi_length) <=> ~(\E q \in 1..Len(df) : df[q].Date = p)

C12_InsufficientData ==
    (/\ pc = "done"
     /\ IF candles = None THEN TRUE
        ELSE \/ Len(candles.rows) < cfg.min_candle_count + 1
             \/ Len(df) < cfg.min_candle_count + 1)
    => zones = <<>> /\ i = 0 /\ ~in_zone

\* the call on three candles with min_candle_count = 4 has returned
C12_Witness ==
    /\ pc = "done"
    /\ candles = ShortCandles
    /\ cfg.min_candle_count = 4
    /\ zones = <<>>

\* C13: every returned zone, and every zone _finalize_zone hands back, has
\* status active or completed.
C13_NeverBroken ==
    /\ \A z \in Emitted : z.status \in {"active", "completed"}
    /\ (zone # None /\ zone # Unbound) => zone.status \in {"active", "completed"}

\* a completed zone was returned and the open candidate at the end was not
C13_Witness ==
    /\ pc = "done"
    /\ zones # <<>>
    /\ zones[Len(zones)].status = "completed"
    /\ zone # None /\ zone # Unbound
    /\ zone.status = "active"

\* C17, one step of the pass: the call either returns before the loop or
\* enters it at index 1; in the loop every step handles index i < n and
\* moves to i + 1, and the call returns only at i = n.
C17_Step ==
    /\ pc = "call" =>
          \/ pc' = "done" /\ i' = 0
          \/ pc' = "scan" /\ i' = 1
    /\ pc = "scan" =>
          \/ pc' = "scan" /\ i < Len(df) /\ i' = i + 1
          \/ pc' = "done" /\ i = Len(df) /\ i' = i
    /\ pc = "done" => FALSE

\* C17: every call of detect_zones returns, after a single forward pass
\* that handles each index 1..n-1 of the trimmed sequence once, in
\* increasing order, the candle that breaks and restarts a zone included.
C17_Terminates ==
    /\ <>(pc = "done")
    /\ [][C17_Step]_vars
    /\ [](pc \in {"call", "scan", "done"} /\ (pc = "scan" => i \in 1..Len(df)))

\* the pass is over and went through a break that restarted a zone on the
\* breaking candle
C17_Witness ==
    /\ pc = "done" /\ i = Len(df) /\ i >= 3
    /\ in_zone
    /\ Len(zones) >= 1
    /\ zones[1].status = "completed"
    /\ iloc(df, zone_data.start_idx).Date = zones[1].end_date + 1

\* C15: two calls with identical ticker, candles and configuration return
\* identical zone lists, whatever calls ran on the detector before, between
\* or during them; each returns what a call on a fresh detector returns.
C15_Deterministic ==
    \A c, d \in CallIds :
        (/\ calls[c].pc = "done" /\ calls[d].pc = "done"
         /\ calls[c].ticker = calls[d].ticker
         /\ calls[c].candles = calls[d].candles)
        => calls[c].zones = calls[d].zones

\* the same arguments were passed twice, another call finished too, and the
\* repeated calls returned a zone
C15_Witness ==
    /\ \A c \in CallIds : calls[c].pc = "done"
    /\ calls["first"].ticker = calls["again"].ticker
    /\ calls["first"].candles = calls["again"].candles
    /\ calls["between"].candles # calls["first"].candles
    /\ calls["between"].zones # <<>>
    /\ calls["first"].zones # <<>>
    /\ calls["first"].zones # calls["between"].zones

\* C16: no step of a call changes the caller's candle frame (rows, columns,
\* numbering) or the detector's configuration.
C16_InputsUnchanged ==
    [][/\ cfg' = cfg
       /\ \A c \in CallIds : calls'[c].candles = calls[c].candles
       /\ \A c \in CallIds : calls'[c].ticker = calls[c].ticker]_vars

\* a call returned after working on a frame with fewer rows and more
\* columns than the caller's
C16_Witness ==
    \E c \in CallIds :
        /\ calls[c].pc = "done"
        /\ calls[c].zones # <<>>
        /\ Len(calls[c].df) < Len(calls[c].candles.rows)
        /\ DOMAIN calls[c].candles.rows[1] = {"Date", "Open", "Close"}
        /\ "RSI" \in DOMAIN calls[c].df[1]

\* C18: calls for distinct instruments on one detector do not interfere:
\* under every interleaving a returned call holds the zone list the same
\* call returns when run alone, and a running call holds only its own zones.
C18_NoInterference ==
    \A c \in CallIds :
        /\ calls[c].pc = "done"
           => calls[c].zones = detect_zones(calls[c].ticker, calls[c].candles)
        /\ \A k \in 1..Len(calls[c].zones) :
              calls[c].zones[k].ticker = calls[c].ticker

\* two calls for distinct instruments were in their loops at the same time,
\* one having a zone already, and both have returned different lists
C18_Witness ==
    \E c, d \in CallIds :
        /\ calls[c].ticker # calls[d].ticker
        /\ calls[c].pc = "scan" /\ calls[c].zones # <<>>
        /\ calls[d].pc = "scan" /\ calls[d].i >= 2

\* the candle handled by the step, and the one before it
Current == iloc(df, i)
Previous == iloc(df, i - 1)
\* the candle handled last, and the one before it
Last == iloc(df, i - 1)
BeforeLast == iloc(df, i - 2)

\* C22: a step taken InZone appends the current candle to the candidate,
\* committing the tentative boundary, if and only if bodyOk, linkOk,
\* momentumOk and tentative range <= max_total_zone_diff all hold; otherwise
\* the candidate is not extended (the zone breaks, even when the three
\* per-candle filters hold).
C22_ExtendStep ==
    (pc = "scan" /\ i < Len(df) /\ in_zone)
    => IF ExtensionOk(zone_data, Current, Previous)
       THEN /\ in_zone'
            /\ zone_data'.start_idx = zone_data.start_idx
            /\ zone_data'.candles = Append(zone_data.candles, i)
            /\ zone_data'.highest_body = Max2(zone_data.highest_body, Current.BodyHigh)
            /\ zone_data'.lowest_body = Min2(zone_data.lowest_body, Current.BodyLow)
            /\ zone_data'.rsi_values = Append(zone_data.rsi_values, Current.RSI)
            /\ zones' = zones
       ELSE /\ zone' # Unbound
            /\ in_zone' => zone_data'.candles = <<i>>

C22_ExtensionRule == [][C22_ExtendStep]_vars

\* a candle that passed bodyOk, linkOk and momentumOk broke a zone of
\* several candles on the cumulative range alone
C22_Witness ==
    /\ pc = "scan" /\ i >= 3 /\ in_zone
    /\ zone_data.candles = <<i - 1>>
    /\ zone # Unbound /\ zone # None
    /\ zone.end_date = BeforeLast.Date
    /\ zone.candle_count >= 2
    /\ BodyOk(Last) /\ LinkOk(Last, BeforeLast) /\ MomentumOk(Last)
    /\ 100 * (Max2(zone.highest_body, Last.BodyHigh) - Min2(zone.lowest_body, Last.BodyLow))
          > cfg.max_total_zone_diff * Min2(zone.lowest_body, Last.BodyLow)

\* C23: whenever no candidate survives the current candle (the scanner is
\* OutOfZone, or the candle breaks the zone), a new candidate starts if
\* and only if bodyOk and momentumOk hold for that candle, and it is seeded
\* with that candle alone: linkOk and the previous boundary play no role.
C23_StartStep ==
    (/\ pc = "scan" /\ i < Len(df)
     /\ IF in_zone THEN ~ExtensionOk(zone_data, Current, Previous) ELSE TRUE)
    => IF BodyOk(Current) /\ MomentumOk(Current)
       THEN /\ in_zone'
            /\ zone_data' = [start_idx |-> i, candles |-> <<i>>,
                             highest_body |-> Current.BodyHigh,
                             lowest_body |-> Current.BodyLow,
                             rsi_values |-> <<Current.RSI>>]
       ELSE ~in_zone' /\ zone_data' = None

C23_StartRule == [][C23_StartStep]_vars

\* from OutOfZone, a candle whose link difference exceeds max_link_diff
\* started a candidate
C23_Witness ==
    /\ pc = "scan" /\ i >= 3 /\ in_zone
    /\ zone_data.candles = <<i - 1>>
    /\ ~(BodyOk(BeforeLast) /\ MomentumOk(BeforeLast))
    /\ ~LinkOk(Last, BeforeLast)

\* the rows of df whose Date lies within the span of zone z
RowsOf(z) == { p \in 1..Len(df) : z.start_date <= df[p].Date /\ df[p].Date <= z.end_date }
MaxOver(S) == CHOOSE x \in S : \A y \in S : y <= x
MinOver(S) == CHOOSE x \in S : \A y \in S : x <= y
\* what a zone record holds when it is computed from exactly its members
FromMembersOnly(z) ==
    /\ z.candle_count = Cardinality(RowsOf(z))
    /\ z.highest_body = MaxOver({ df[p].BodyHigh : p \in RowsOf(z) })
    /\ z.lowest_body = MinOver({ df[p].BodyLow : p \in RowsOf(z) })
    /\ \E first \in RowsOf(z) :
          /\ df[first].Date = z.start_date
          /\ df[first + z.candle_count - 1].Date = z.end_date
          /\ z.avg_rsi = RoundTo(RDiv(RSum([k \in 1..z.candle_count |->
                                               df[first + k - 1].RSI]),
                                      Num(z.candle_count)), 10)

\* C24: the zone a break finalizes, and every zone of the list, has its
\* highest and lowest body, candle count, end date and average momentum
\* computed from the members before the breaking candle only.
C24_BreakingCandleLeftOut ==
    /\ \A z \in Emitted : FromMembersOnly(z)
    /\ (zone # Unbound /\ zone # None) => FromMembersOnly(zone)
    /\ (pc = "scan" /\ i >= 2 /\ zone # Unbound /\ zone # None)
       => zone.end_date < Last.Date

\* a zone was completed by a candle whose body reaches above the zone's
\* highest body and whose momentum differs from the zone's average
C24_Witness ==
    /\ pc = "scan" /\ i >= 3
    /\ zone # Unbound /\ zone # None
    /\ zone.status = "completed"
    /\ zone.end_date = BeforeLast.Date
    /\ zone.candle_count >= 2
    /\ Last.BodyHigh > zone.highest_body
    /\ RoundTo(Last.RSI, 10) # zone.avg_rsi

\* C25: the boundary of the pending candidate is the tightest rectangle around
\* the bodies of exactly its current members.
C25_TightestRectangle ==
    (pc \in {"scan", "done"} /\ in_zone)
    => /\ zone_data.highest_body =
            MaxOver({ iloc(df, zone_data.candles[k]).BodyHigh :
                        k \in 1..Len(zone_data.candles) })
       /\ zone_data.lowest_body =
            MinOver({ iloc(df, zone_data.candles[k]).BodyLow :
                        k \in 1..Len(zone_data.candles) })

\* an extension raised the boundary above the body of the seed candle
C25_Witness ==
    /\ pc = "scan" /\ in_zone
    /\ Len(zone_data.candles) >= 3
    /\ zone_data.highest_body > iloc(df, zone_data.candles[1]).BodyHigh
    /\ zone_data.highest_body > iloc(df, zone_data.candles[2]).BodyHigh
    /\ zone_data.lowest_body < Last.BodyLow

\* C26: index 0 of the trimmed sequence is never a member of a candidate nor
\* of a returned zone, whatever its body and momentum.
C26_FirstCandleExcluded ==
    /\ (pc \in {"scan", "done"} /\ in_zone)
       => /\ zone_data.start_idx >= 1
          /\ \A k \in 1..Len(zone_data.candles) : zone_data.candles[k] >= 1
    /\ pc = "scan" => i >= 1
    /\ \A z \in Emitted : z.start_date > iloc(df, 0).Date
    /\ (zone # Unbound /\ zone # None) => zone.start_date > iloc(df, 0).Date

\* index 0 passes bodyOk and momentumOk, and the returned zone starts at
\* index 1
C26_Witness ==
    /\ pc = "done" /\ zones # <<>>
    /\ BodyOk(iloc(df, 0)) /\ MomentumOk(iloc(df, 0))
    /\ LinkOk(iloc(df, 1), iloc(df, 0))
    /\ zones[1].start_date = iloc(df, 1).Date

\* the call got past the first length check: its df is computed
Trimmed ==
    /\ pc # "call"
    /\ IF candles = None THEN FALSE
       ELSE Len(candles.rows) >= cfg.min_candle_count + 1
Closes == [p \in 1..Len(candles.rows) |-> candles.rows[p].Close]
Kept(p) == \E q \in 1..Len(df) : df[q].Date = candles.rows[p].Date
\* sums of the rises and of the falls of the close over the window ending
\* at row p (the first row has no change)
Change(p) == IF p = 1 THEN 0 ELSE Closes[p] - Closes[p - 1]
RECURSIVE Rises(_, _)
Rises(from, to) ==
    IF from > to THEN 0 ELSE Max2(Change(from), 0) + Rises(from + 1, to)
RECURSIVE Falls(_, _)
Falls(from, to) ==
    IF from > to THEN 0 ELSE Max2(-Change(from), 0) + Falls(from + 1, to)
WindowRises(p) == Rises(p - cfg.rsi_length + 1, p)
WindowFalls(p) == Falls(p - cfg.rsi_length + 1, p)
\* the momentum of the candle of row p as df holds it
MomentumOf(p) == df[CHOOSE q \in 1..Len(df) : df[q].Date = candles.rows[p].Date].RSI

\* C27: df holds exactly the candles whose momentum is defined, in their
\* order, renumbered without gaps; the members of a candidate are
\* consecutive rows of df, each linked to the row before it in df, so the
\* neighbours of a removed candle are adjacent.
C27_UndefinedRemoved ==
    Trimmed =>
    /\ \A p \in 1..Len(candles.rows) :
          Kept(p) <=> ~IsNaN(rsi_at(Closes, cfg.rsi_length, p))
    /\ \A q \in 1..Len(df) : ~IsNaN(df[q].RSI)
    /\ \A q \in 1..Len(df) - 1 : df[q].Date < df[q + 1].Date
    /\ \A q \in 1..Len(df) : \E p \in 1..Len(candles.rows) :
          /\ candles.rows[p].Date = df[q].Date
          /\ candles.rows[p].Open = df[q].Open
          /\ candles.rows[p].Close = df[q].Close
    /\ (pc \in {"scan", "done"} /\ in_zone) =>
          \A k \in 2..Len(zone_data.candles) :
              /\ zone_data.candles[k] = zone_data.candles[k - 1] + 1
              /\ LinkOk(iloc(df, zone_data.candles[k]),
                        iloc(df, zone_data.candles[k] - 1))

\* a candle inside the sequence was removed, and the candles on its two
\* sides are consecutive members of the candidate
C27_Witness ==
    /\ Trimmed /\ pc \in {"scan", "done"} /\ in_zone
    /\ \E k \in 2..Len(zone_data.candles) :
          iloc(df, zone_data.candles[k]).Date
              = iloc(df, zone_data.candles[k - 1]).Date + 2
    /\ df[1].Date > 1

\* C28: every momentum value df holds lies in [0, 100]; over a full window,
\* no fall and some rise gives exactly 100, and neither fall nor rise gives
\* no value.
C28_MomentumRange ==
    Trimmed =>
    /\ \A q \in 1..Len(df) : RLe(Num(0), df[q].RSI) /\ RLe(df[q].RSI, Num(100))
    /\ \A p \in cfg.rsi_length..Len(candles.rows) :
          /\ (WindowFalls(p) = 0 /\ WindowRises(p) > 0)
             => (Kept(p) /\ MomentumOf(p) = Num(100))
          /\ (WindowFalls(p) = 0 /\ WindowRises(p) = 0) => ~Kept(p)
          /\ WindowFalls(p) > 0
             => (Kept(p) /\ RLt(MomentumOf(p), Num(100)))

\* one sequence had a flat window, a window of rises only and a window of
\* rises and falls
C28_Witness ==
    /\ Trimmed
    /\ \E p \in cfg.rsi_length..Len(candles.rows) :
          WindowFalls(p) = 0 /\ WindowRises(p) = 0
    /\ \E p \in cfg.rsi_length..Len(candles.rows) :
          WindowFalls(p) = 0 /\ WindowRises(p) > 0 /\ MomentumOf(p) = Num(100)
    /\ \E p \in cfg.rsi_length..Len(candles.rows) :
          /\ WindowFalls(p) > 0 /\ WindowRises(p) > 0
          /\ RLt(Num(0), MomentumOf(p))

\* C30: once candle i - 1 >= 1 has been handled, the scanner is InZone if
\* and only if that candle passes bodyOk and momentumOk, and then it is the
\* last member of the candidate; the candidate is a run of consecutive
\* candles that each pass both, so no candle is a member of two candidates.
C30_InZoneIffLastStarts ==
    (pc \in {"scan", "done"} /\ i >= 2)
    => /\ in_zone <=> (BodyOk(Last) /\ MomentumOk(Last))
       /\ in_zone <=> zone_data # None
       /\ in_zone =>
            /\ zone_data.candles[Len(zone_data.candles)] = i - 1
            /\ zone_data.start_idx = zone_data.candles[1]
            /\ zone_data.start_idx >= 1
            /\ \A k \in 1..Len(zone_data.candles) :
                  /\ zone_data.candles[k] = zone_data.start_idx + k - 1
                  /\ BodyOk(iloc(df, zone_data.candles[k]))
                  /\ MomentumOk(iloc(df, zone_data.candles[k]))

\* a candle that failed bodyOk left the scanner OutOfZone after a zone, and
\* two candles later the scanner is InZone again with a one-candle candidate
C30_Witness ==
    /\ pc = "scan" /\ i >= 4 /\ in_zone
    /\ zone_data.candles = <<i - 1>>
    /\ ~BodyOk(BeforeLast)
    /\ zone # Unbound /\ zone # None
    /\ zone.end_date = iloc(df, i - 3).Date

\* C21: the retention cleanup of a scan deletes exactly the stored zones
\* that are completed or broken and whose end date is earlier than today
\* minus the retention period: no active zone and no zone ending on or after
\* the cutoff is deleted, and every other zone is.
C21_CleanupStep ==
    (scan.pc = "tickers" /\ scan'.pc = "log")
    => store' = { r \in store :
                    ~(/\ r.status \in {"completed", "broken"}
                      /\ r.end_date < today - RetentionDays) }

C21_RetentionExact == [][C21_CleanupStep]_vars

\* C31: every emitted zone of two or more candles has an unrounded total
\* range percent <= max_total_zone_diff, and every finalized candidate of two
\* or more candles has a compression numerator >= 0; a one-candle candidate
\* is not bound by it.
C31_RangeWithinLimit ==
    /\ \A z \in Emitted :
          z.candle_count >= 2
          => 100 * (z.highest_body - z.lowest_body)
                <= cfg.max_total_zone_diff * z.lowest_body
    /\ (frame # Unbound /\ frame.candle_count >= 2)
       => /\ RLe(frame.total_diff_percent, Num(cfg.max_total_zone_diff))
          /\ RLe(Num(0), RSub(Num(cfg.max_total_zone_diff), frame.total_diff_percent))

\* a zone of two or more candles was emitted, and the candidate finalized
\* last is a single seed candle whose body range exceeds max_total_zone_diff
C31_Witness ==
    /\ pc = "done"
    /\ \E z \in Emitted : z.candle_count >= 2 /\ z.highest_body > z.lowest_body
    /\ frame # Unbound
    /\ frame.candle_count = 1
    /\ RLt(Num(cfg.max_total_zone_diff), frame.total_diff_percent)

\* the index of the candle of a date in the trimmed sequence
IndexOf(d) == CHOOSE p \in 0..(Len(df) - 1) : iloc(df, p).Date = d

\* C32: the members of a candidate are consecutive indices of the trimmed
\* sequence (member k, counted from 0, is start_idx + k), its momentum list
\* is as long as its member list, and every emitted zone has
\* candle_count = end index - start index + 1.
C32_ConsecutiveMembers ==
    /\ zone_data # None
       => /\ Len(zone_data.candles) >= 1
          /\ Len(zone_data.rsi_values) = Len(zone_data.candles)
          /\ \A k \in 0..(Len(zone_data.candles) - 1) :
                /\ zone_data.candles[k + 1] = zone_data.start_idx + k
                /\ zone_data.rsi_values[k + 1] = iloc(df, zone_data.start_idx + k).RSI
    /\ \A z \in Emitted \cup ({zone} \ {None, Unbound}) :
          z.candle_count = IndexOf(z.end_date) - IndexOf(z.start_date) + 1

\* a candidate of two or more members that starts past index 1 was
\* finalized at the end of the input and emitted
C32_Witness ==
    /\ pc = "done" /\ in_zone
    /\ Len(zone_data.candles) >= 2
    /\ zone_data.start_idx >= 2
    /\ zone \in Emitted
    /\ zone.candle_count = Len(zone_data.candles)
    /\ IndexOf(zone.start_date) = zone_data.start_idx
    /\ IndexOf(zone.end_date) = zone_data.start_idx + Len(zone_data.candles) - 1

\* C33: the zones one detect_zones call emits do not overlap: each zone
\* starts at an index strictly greater than the end index of the zone emitted
\* before it, so no candle is a member of two emitted zones, and a candidate
\* that is still open starts after every emitted zone.
C33_NoOverlap ==
    /\ \A k \in 1..(Len(zones) - 1) :
          IndexOf(zones[k + 1].start_date) > IndexOf(zones[k].end_date)
    /\ \A a, b \in 1..Len(zones) :
          a # b => RowsOf(zones[a]) \cap RowsOf(zones[b]) = {}
    /\ (pc = "scan" /\ in_zone)
       => \A z \in Emitted : zone_data.start_idx > IndexOf(z.end_date)

\* two zones were emitted by one call
C33_Witness ==
    /\ pc = "done"
    /\ Len(zones) = 2
    /\ IndexOf(zones[1].start_date) <= IndexOf(zones[1].end_date)
    /\ IndexOf(zones[1].end_date) < IndexOf(zones[2].start_date)

C19_OneRecordPerStart ==
    \A r1, r2 \in store :
        (r1.ticker = r2.ticker /\ r1.start_date = r2.start_date)
        => r1.id = r2.id

\* C20: once the scan has analysed a ticker whose fresh zone list has no
\* active zone (the empty list included), the store has no active record of
\* that ticker: what was active is broken or completed.
C20_NoStaleActive ==
    (/\ scan.ticker # "unbound"
     /\ existing_actives(scan.zones) = {}
     /\ \A k \in 1..Len(scan.raised) :
           ~(scan.raised[k].ticker = scan.ticker /\ scan.raised[k].in = "detect_zones"))
    => \A r \in store : r.ticker = scan.ticker => r.status # "active"

\* a record that an earlier scan saved as active was marked broken by a
\* scan whose fresh list for its ticker has no active zone
C20_Witness ==
    /\ scan.ticker # "unbound"
    /\ existing_actives(scan.zones) = {}
    /\ \E r \in store : r.ticker = scan.ticker /\ r.status = "broken"
    /\ \E k \in 1..Len(history) : \E r \in store :
          r.id = history[k].zone_id /\ r.status = "broken"

\* C34: the store holds at most one zone record with status active per
\* ticker.
C34_OneActivePerTicker ==
    \A r1, r2 \in store :
        (r1.ticker = r2.ticker /\ r1.status = "active" /\ r2.status = "active")
        => r1.id = r2.id

Terminal(r) == r.status \in {"completed", "broken"}

\* C35: a stored record whose status is completed or broken is never changed
\* again: a step leaves it as it is, or the cleanup removes it; the records a
\* step changes are active ones.
C35_TerminalStep ==
    /\ \A r \in store :
          Terminal(r)
          => \/ r \in store'
             \/ /\ scan.pc = "tickers" /\ scan'.pc = "log"
                /\ \A q \in store' : q.id # r.id
    /\ \A r \in store : \A q \in store' :
          (q.id = r.id /\ q # r) => r.status = "active"

C35_TerminalRecords == [][C35_TerminalStep]_vars

\* a scan saved a zone whose ticker and start date a completed or broken
\* record already had: the old record is as it was and a new one stands
\* beside it
C35_Witness ==
    \E r \in store : \E q \in store :
        /\ Terminal(r)
        /\ q.ticker = r.ticker /\ q.start_date = r.start_date
        /\ q.id > r.id
        /\ \E k \in 1..Len(history) : history[k].zone_id = q.id

\* the entries of the zone of entry k that are of an earlier day
EarlierEntries(k) ==
    { m \in 1..Len(history) : /\ history[m].zone_id = history[k].zone_id
                              /\ history[m].date < history[k].date }

\* the most recent of them
PreviousEntry(k) ==
    CHOOSE m \in EarlierEntries(k) :
        \A n \in EarlierEntries(k) : history[n].date <= history[m].date

\* C36: the score_change of every score-history entry is the score of the
\* entry minus the score of the most recent entry of the same zone of an
\* earlier day, and 0 when the zone has no earlier entry; this is so after
\* any number of saves of the zone on one day.
C36_ChangeFromPreviousDay ==
    \A k \in 1..Len(history) :
        history[k].score_change =
            IF EarlierEntries(k) = {} THEN 0
            ELSE history[k].score - history[PreviousEntry(k)].score

\* C37: the score history has at most one entry per zone and day, and the
\* entry of today holds the score and the candle count of the last save of
\* its zone.
C37_OneEntryPerDay ==
    /\ \A k, m \in 1..Len(history) :
          (history[k].zone_id = history[m].zone_id /\ history[k].date = history[m].date)
          => k = m
    /\ \A k \in 1..Len(history) : \A r \in store :
          (history[k].zone_id = r.id /\ history[k].date = today)
          => /\ history[k].score = r.score
             /\ history[k].candle_count = r.candle_count

\* two scans ran on the first day and each saved an active zone, so the
\* entry of that day was written and then overwritten
C37_Witness ==
    /\ today = FirstDay
    /\ scan.runs = 2
    /\ scan.pc = "idle"
    /\ scan.active_zones_count >= 1
    /\ \E r \in store :
          /\ r.status = "active"
          /\ Cardinality({ k \in 1..Len(history) :
                             history[k].zone_id = r.id /\ history[k].date = today }) = 1

LastLog == scan_logs[Len(scan_logs)]

\* C38: every execution of a scan records exactly one scan-log entry,
\* whichever way it ends: there is one entry per execution that has
\* returned, and none yet for the execution in progress.
C38_OneLogPerScan ==
    Len(scan_logs) = IF scan.pc = "idle" THEN scan.runs ELSE scan.runs - 1

\* three executions have returned, one on each exit, and each left one entry
C38_Witness ==
    /\ scan.pc = "idle" /\ scan.runs = 3 /\ Len(scan_logs) = 3
    /\ \E a, b, c \in 1..3 :
          /\ scan_logs[a].errors = << <<"No tickers loaded from file">> >>
          /\ scan_logs[a].total_tickers = 0
          /\ scan_logs[b].errors # <<>>
          /\ scan_logs[b].errors[Len(scan_logs[b].errors)] = <<"Fatal error during scan">>
          /\ scan_logs[c].errors = <<>>
          /\ scan_logs[c].active_zones_found >= 1

\* the entries of the error list that the loop body wrote
LoopErrors == SelectSeq(scan.errors, LAMBDA e : e[1] = "Error analyzing")

\* the exceptions that reached the loop body
Escaped == SelectSeq(scan.raised, LAMBDA e : e.in = "detect_zones")

\* every exception raised while a ticker was handled is in the error list
AllListed ==
    /\ Len(LoopErrors) = Len(scan.raised)
    /\ \A k \in 1..Len(scan.raised) : LoopErrors[k][2] = scan.raised[k].ticker

\* every exception that reached the loop body is in the error list, and
\* nothing else is
EscapedListed ==
    /\ Len(LoopErrors) = Len(Escaped)
    /\ \A k \in 1..Len(Escaped) : LoopErrors[k][2] = Escaped[k].ticker

\* an exception changes nothing in the store and does not end the scan: the
\* tickers that remain are handled in order, the cleanup follows the last
\* one, and the scan log gets the error list
IsolationStep ==
    /\ (Len(scan'.raised) = Len(scan.raised) + 1)
       => /\ store' = store /\ history' = history
          /\ scan'.pc \in {"tickers", "saving"}
          /\ scan'.raised[Len(scan'.raised)].in = "detect_zones"
             => /\ scan'.raised[Len(scan'.raised)].ticker = Head(scan.todo)
                /\ scan'.todo = Tail(scan.todo)
                /\ scan'.pc = "tickers"
    /\ (scan.pc = "tickers" /\ scan.todo # <<>> /\ scan' # scan)
       => /\ scan'.ticker = Head(scan.todo)
          /\ scan'.todo = Tail(scan.todo)
    /\ (scan.pc = "tickers" /\ scan.todo = <<>> /\ scan' # scan)
       => \/ scan'.pc = "log"
          \/ scan'.pc = "idle" /\ Len(scan_logs') = Len(scan_logs) + 1
    /\ (scan.pc = "log" /\ scan' # scan)
       => /\ Len(scan_logs') = Len(scan_logs) + 1
          /\ scan_logs'[Len(scan_logs')].errors = scan.errors

\* a scan in which an exception was raised returns, and its scan log is
\* written
RaisedScanReturns ==
    (scan.pc # "idle" /\ scan.raised # <<>>)
    ~> (scan.pc = "idle" /\ Len(scan_logs) = scan.runs)

\* C39 as stated: every exception raised while the zones of a ticker are
\* detected or saved is appended to the error list of the scan, and the
\* remaining tickers, the cleanup and the scan log follow.
C39_AnyExceptionListed ==
    [][IsolationStep]_vars /\ []AllListed /\ RaisedScanReturns

\* C39 amended: every exception that reaches the loop body is appended to
\* the error list of the scan (an exception raised inside save_zone is
\* handled there and is not), and after either the remaining tickers, the
\* cleanup and the scan log follow.
C39_ErrorIsolation ==
    [][IsolationStep]_vars /\ []EscapedListed /\ RaisedScanReturns

\* detect_zones raised for the first ticker; the second was analysed and
\* its zone saved, and the scan log holds the error and counts that zone
C39_Witness ==
    /\ scan.pc = "idle" /\ Len(scan_logs) >= 1
    /\ Len(scan.raised) = 1
    /\ scan.raised[1] = [ticker |-> tickers[1], in |-> "detect_zones"]
    /\ scan.ticker = tickers[2]
    /\ LastLog.errors = << <<"Error analyzing", tickers[1]>> >>
    /\ LastLog.active_zones_found >= 1

----------------------------------------------------------------------------
(* Claims about the scorer *)

BothScored ==
    /\ Len(scored) = 2
    /\ scored[1].frame # Unbound
    /\ scored[2].frame # Unbound
    /\ scored[1].frame.avg_rsi = scored[2].frame.avg_rsi
    /\ scored[1].frame.candle_count = scored[2].frame.candle_count

NarrowerScoresNoLess ==
    RLe(scored[1].frame.total_diff_percent, scored[2].frame.total_diff_percent)
    => RLe(scored[2].frame.compression_score, scored[1].frame.compression_score)

\* C10 as stated: for every configuration with max_total_zone_diff #
\* score_diff_min, of two candidates with the same momentum and duration the
\* one with the smaller total range never has the smaller compression score.
C10_MonotonicAnyConfig ==
    (BothScored /\ cfg.max_total_zone_diff # cfg.score_diff_min)
    => NarrowerScoresNoLess

\* C10 amended: the same for every configuration with max_total_zone_diff >
\* score_diff_min.
C10_MonotonicCompression ==
    (BothScored /\ cfg.max_total_zone_diff > cfg.score_diff_min)
    => NarrowerScoresNoLess

\* two candidates scored under such a configuration, the narrower strictly
\* higher
C10_Witness ==
    /\ BothScored
    /\ cfg.max_total_zone_diff > cfg.score_diff_min
    /\ RLt(scored[1].frame.total_diff_percent, scored[2].frame.total_diff_percent)
    /\ RLt(scored[2].frame.compression_score, scored[1].frame.compression_score)

\* the calls that got past the gate of lines 229-233
Scored == { k \in 1..Len(scored) : scored[k].frame # Unbound }

LongerScoresNoLess ==
    \A a \in Scored, b \in Scored :
        (/\ scored[a].frame.total_diff_percent = scored[b].frame.total_diff_percent
         /\ scored[a].frame.avg_rsi = scored[b].frame.avg_rsi
         /\ scored[a].frame.candle_count <= scored[b].frame.candle_count)
        => RLe(scored[a].frame.duration_score, scored[b].frame.duration_score)

ZeroAtMinimum ==
    \A a \in Scored :
        scored[a].frame.candle_count = cfg.min_candle_count
        => scored[a].frame.duration_score = Num(0)

FullAtCap ==
    \A a \in Scored :
        scored[a].frame.candle_count >= cfg.score_candle_max
        => scored[a].frame.duration_score = ScoreCap

\* C29 as stated: for every configuration with score_candle_max #
\* min_candle_count, a zone with more candles never has the smaller duration
\* score, the score is 0 at candle_count = min_candle_count and 33.33 for
\* every candle_count >= score_candle_max.
C29_DurationAnyConfig ==
    cfg.score_candle_max # cfg.min_candle_count
    => (LongerScoresNoLess /\ ZeroAtMinimum /\ FullAtCap)

\* C29 amended: the same for every configuration with score_candle_max >
\* min_candle_count.
C29_DurationScore ==
    cfg.score_candle_max > cfg.min_candle_count
    => (LongerScoresNoLess /\ ZeroAtMinimum /\ FullAtCap)

\* under such a configuration a zone of min_candle_count candles scored 0
\* and a longer one, beyond the cap, scored 33.33
C29_Witness ==
    /\ Len(scored) = 2 /\ Scored = {1, 2}
    /\ cfg.score_candle_max > cfg.min_candle_count
    /\ scored[1].frame.candle_count = cfg.min_candle_count
    /\ scored[2].frame.candle_count > cfg.score_candle_max
    /\ scored[1].frame.duration_score = Num(0)
    /\ scored[2].frame.duration_score = ScoreCap
====
